---- MODULE Spec2Model ----
(***************************************************************************)
(* The Gemini + MCP host of src/backend/server.py: the session registry    *)
(* built by GeminiMCPHost.startup, the planner (process_query_with_auth),  *)
(* the authorization gate (pending_tool_calls), the executor               *)
(* (execute_tool_call) and the three HTTP handlers /chat, /authorize_tool  *)
(* and /execute_tool.  The handlers are coroutines on one event loop: a    *)
(* step of the model runs a handler from one await to the next, so the     *)
(* only suspension points are session.list_tools() and                     *)
(* session.call_tool(); _call_gemini is a blocking call and does not       *)
(* yield.                                                                  *)
(***************************************************************************)
EXTENDS Integers, Sequences, FiniteSets, TLC

\* ------------------------------------------------------------------ bounds
\* HTTP requests received in one run.
MaxRequests == 3

\* --------------------------------------------------------------- the inputs
\* Tool names a provider may expose and the model may ask for.
Tools == {"search_flights", "book_flight"}
\* A tool name no provider exposes.
UnknownTool == "no_such_tool"

\* Provider script paths the host may be constructed with.  The first two are
\* MCP_SERVER_SCRIPTS; the third has the file name of the first in another
\* directory.
PathSearch == "MCPservers/flightsearch.py"
PathBooking == "MCPservers/flightbooking.py"
PathOther == "plugins/flightsearch.py"
ScriptPaths == {PathSearch, PathBooking, PathOther}

\* Path(script_path).stem
stem(path) ==
    CASE path = PathSearch -> "flightsearch"
      [] path = PathBooking -> "flightbooking"
      [] path = PathOther -> "flightsearch"

\* Browser session ids a client sends as user_session_id, and login records.
UserSessionIds == {"tab-1"}
UserInfos ==
    {[user_id |-> "user_001", name |-> "Ann", email |-> "ann@x.org"],
     [user_id |-> "user_002", name |-> "Bob", email |-> "bob@x.org"]}
Messages == {"search flights from ATH to BCN"}

\* Mutant of uuid4: every identifier minted is the same.
uuid4_same(n) == "uuid-1"

\* str(uuid4()): the n-th identifier minted by the process.
uuid4(n) == "uuid-" \o ToString(n)

\* Texts the model completion call may return.  A TLA+ string cannot hold a
\* backquote: <fence> stands for the three backquotes of a code fence.
TextProse == "I'm your flight booking assistant!"
TextSearch == "{\"tool\": \"search_flights\", \"args\": {\"origin\": \"ATH\"}}"
TextBook == "<fence>json {\"tool\": \"book_flight\"} <fence>"
TextObject == "{\"answer\": \"none\"}"
TextExplain == "The booking service could not be reached."
TextArray == "[\"book_flight\"]"
TextEmpty == "{}"
TextEmbedded == "Sure: {\"tool\": \"book_flight\"}"
ModelTexts ==
    {TextProse, TextSearch, TextBook, TextObject, TextExplain, TextArray,
     TextEmpty, TextEmbedded}

\* A python dict of string arguments is the set of its items.
EmptyDict == {}
NoParse == [type |-> "none", keys |-> {}, tool |-> "", args |-> EmptyDict]

\* re.search of the fence pattern (a code fence, an optional "json" tag, one
\* {...} object, a code fence) in text: group(1) of the match, or "" when
\* there is none.
fence_match(text) ==
    CASE text = TextBook -> "{\"tool\": \"book_flight\"}"
      [] OTHER -> ""

\* json.loads(candidate): the parsed value; type "error" is JSONDecodeError.
json_loads(candidate) ==
    CASE candidate = TextSearch ->
           [type |-> "dict", keys |-> {"tool", "args"}, tool |-> "search_flights",
            args |-> {<<"origin", "ATH">>}]
      [] candidate = "{\"tool\": \"book_flight\"}" ->
           [type |-> "dict", keys |-> {"tool"}, tool |-> "book_flight",
            args |-> EmptyDict]
      [] candidate = TextObject ->
           [type |-> "dict", keys |-> {"answer"}, tool |-> "", args |-> EmptyDict]
      [] candidate = TextEmpty ->
           [type |-> "dict", keys |-> {}, tool |-> "", args |-> EmptyDict]
      [] candidate = TextArray ->
           [type |-> "list", keys |-> {}, tool |-> "", args |-> EmptyDict]
      [] OTHER -> [type |-> "error", keys |-> {}, tool |-> "", args |-> EmptyDict]

\* Mutant of _extract_json: every text is taken for a request of book_flight.
_extract_json_guess(text) ==
    [type |-> "dict", keys |-> {"tool"}, tool |-> "book_flight", args |-> EmptyDict]

\* GeminiMCPHost._extract_json: the dict, or NoParse for None.
_extract_json(text) ==
    LET candidate == IF fence_match(text) # "" THEN fence_match(text) ELSE text
        parsed == json_loads(candidate)
    IN  IF parsed.type = "dict" THEN parsed ELSE NoParse

\* parsed.get("args", {}) or {}
tool_args_of(parsed) ==
    IF "args" \in parsed.keys /\ parsed.args # EmptyDict THEN parsed.args
    ELSE EmptyDict

\* ---------------------------------------------------------------- the state
VARIABLES
    server_script_paths,  \* GeminiMCPHost.server_script_paths
    catalogs,             \* provider i (the i-th script) -> the tool names it lists
    sessions,             \* GeminiMCPHost.sessions, in dict insertion order
    pending_tool_calls,   \* request token -> tool_data
    conversation_history, \* user_session_id -> list of entries
    user_info_storage,    \* user_session_id -> user info
    uuid_count,           \* identifiers minted by uuid4() so far
    request_count,        \* HTTP requests received so far
    requests,             \* the handlers that are suspended: request number -> locals
    responses,            \* log: every response sent (or exception raised) to a client
    calls,                \* log: every session.call_tool made, with the handler
                          \* (kind) whose request made it
    consumed,             \* log: every pending entry popped by /authorize_tool
    tool_requests,        \* log: every tool_request returned by /chat, with the
                          \* user session of the chat that returned it
    exit_stack,           \* GeminiMCPHost.exit_stack: the contexts entered and not
                          \* yet exited, in the order they were entered
    starting,             \* where GeminiMCPHost.startup / shutdown stands
    prompts,              \* log: what every _call_gemini of the planner was given
    released,             \* log: the contexts aclose() has exited, in exit order
    \* db.py, the SQLite datastore behind flight_api.py
    flights,              \* table flights: flight id -> available_seats
    bookings,             \* table bookings: booking id -> row
    booking_count,        \* booking ids minted so far
    db_calls,             \* the calls of db.py functions under way: number -> locals
    db_count,             \* calls of db.py functions started so far
    db_returns,           \* log: what every finished call returned or raised
    \* flightsearch.py, the search provider and its cache
    flight_cache,         \* OrderedDict flight_cache, as its (key, value) pairs in order
    cache_stats,          \* cache_hits, cache_misses, cache_evictions
    searches,             \* the search_flights calls awaiting the backend: number -> key
    search_count,         \* search_flights calls started so far
    uses,                 \* log: the keys inserted or hit, in the order of these uses
    search_returns,       \* log: what every finished search_flights call returned
    \* flightbooking.py, the booking provider, and the clock of the machine
    now,                  \* datetime.utcnow(), in minutes
    tool_calls,           \* the tool calls under way: number -> locals
    tool_count,           \* tool calls started so far
    tool_returns          \* log: what every finished tool call returned

\* The host of server.py
host_vars ==
    <<server_script_paths, catalogs, sessions, pending_tool_calls,
      conversation_history, user_info_storage, uuid_count,
      request_count, requests, responses, calls, consumed, tool_requests,
      exit_stack, starting, prompts, released>>

db_vars == <<flights, bookings, booking_count, db_calls, db_count, db_returns>>

cache_vars ==
    <<flight_cache, cache_stats, searches, search_count, uses, search_returns>>

tool_vars == <<now, tool_calls, tool_count, tool_returns>>

vars == <<host_vars, db_vars, cache_vars, tool_vars>>

\* d[k] = v on a python dict held as a function
Put(d, k, v) == [x \in DOMAIN d \cup {k} |-> IF x = k THEN v ELSE d[x]]

\* d.pop(k)
Pop(d, k) == [x \in DOMAIN d \ {k} |-> d[x]]

\* self.sessions[server_name] = session, on the registry held as the sequence
\* of its (key, value) pairs in insertion order: assigning to a key the dict
\* already holds replaces the value in place.
register(reg, server_name, session) ==
    IF \E i \in 1..Len(reg) : reg[i].name = server_name
    THEN [i \in 1..Len(reg) |->
            IF reg[i].name = server_name
            THEN [name |-> server_name, session |-> session] ELSE reg[i]]
    ELSE Append(reg, [name |-> server_name, session |-> session])

\* GeminiMCPHost.startup when every provider starts: the registry after the
\* first n script paths.
RECURSIVE startup(_, _)
startup(paths, n) ==
    IF n = 0 THEN <<>>
    ELSE register(startup(paths, n - 1), stem(paths[n]), n)

\* ------------------------------------------------------------ the requests
\* The locals of one handler; pc is the await it is suspended in,
\* req_user_info the user_info of the request body (req.user_info).
NewRequest(kind) ==
    [kind |-> kind, pc |-> "", session_id |-> "", user_session_id |-> "",
     query |-> "", req_user_info |-> {}, user_info |-> {}, tool_name |-> "",
     tool_args |-> EmptyDict, idx |-> 0, authorized |-> FALSE]

\* What a handler answers: the HTTP status, the reply, how the handler ended
\* (outcome) and whether the reply is the return value of _call_gemini
\* (via = "model") or a string the host builds (via = "literal").
Response(rec, status, reply, outcome, via) ==
    [kind |-> rec.kind, session_id |-> rec.session_id,
     tool_name |-> rec.tool_name, status |-> status, reply |-> reply, outcome |-> outcome, via |-> via]

\* Mutant of append: the entry is put in front of the history.
append_front(hist, us, role, message) ==
    IF us \in DOMAIN hist
    THEN [hist EXCEPT ![us] = <<[role |-> role, message |-> message]>> \o @]
    ELSE hist

\* Mutant of append: an entry the history already holds is not stored again.
append_once(hist, us, role, message) ==
    IF us \in DOMAIN hist
       /\ \A i \in 1..Len(hist[us]) : hist[us][i] # [role |-> role, message |-> message]
    THEN [hist EXCEPT ![us] = Append(@, [role |-> role, message |-> message])]
    ELSE hist

\* conversation_history[us].append({"role": role, "message": message}),
\* guarded by "if user_session_id in conversation_history"
append(hist, us, role, message) ==
    IF us \in DOMAIN hist
    THEN [hist EXCEPT ![us] = Append(@, [role |-> role, message |-> message])]
    ELSE hist

DeniedReply == "Tool call was denied by user."
NotInitializedReply == "MCP sessions not initialized on server."
NotFoundReply(tool_name) ==
    "Tool '" \o tool_name \o "' not found in any connected MCP server."
ProposalReply(tool_name) ==
    "The AI wants to call the tool: **" \o tool_name \o "**"

\* Mutant of tool_data: the arguments are stored as the default empty dict.
tool_data_default_args(tool_name, tool_args, query, user_info, user_session_id) ==
    [tool_name |-> tool_name, tool_args |-> EmptyDict, query |-> query,
     conversation_history |-> user_session_id, user_info |-> user_info,
     user_session_id |-> user_session_id]

\* The tool_data dict process_query_with_auth returns and chat stores, with
\* the user_session_id chat adds.  conversation_history is the list object of
\* the session, held by reference: the model names it by its session id.
tool_data(tool_name, tool_args, query, user_info, user_session_id) ==
    [tool_name |-> tool_name, tool_args |-> tool_args, query |-> query,
     conversation_history |-> user_session_id, user_info |-> user_info,
     user_session_id |-> user_session_id]

\* The tool_request dict of the ChatResponse, as the log keeps it: with the
\* user session the chat request came from.
tool_request(session_id, tool_name, tool_args, user_session_id) ==
    [session_id |-> session_id, tool_name |-> tool_name, tool_args |-> tool_args,
     user_session_id |-> user_session_id]

\* The handler of request r suspends with locals rec / answers resp.
Suspend(r, rec) == requests' = Put(requests, r, rec)
Answer(r, resp) ==
    /\ requests' = Pop(requests, r)
    /\ responses' = responses \cup {resp}

\* A new request arrives: its number.
Arrives == request_count < MaxRequests /\ request_count' = request_count + 1
NewId == request_count + 1

\* --------------------------------------------------------------- POST /chat
\* Mutant of stored_user_info: the stored identity is not read.
stored_user_info_none(store, user_session_id) == {}

\* user_info_storage.get(user_session_id, None)
stored_user_info(store, user_session_id) ==
    IF user_session_id \in DOMAIN store THEN {store[user_session_id]} ELSE {}

\* chat up to the first await: mint the request token, find or create the
\* history, store the user info, enter process_query_with_auth and suspend in
\* the first session.list_tools().
ChatStart(message, usid, info) ==
    /\ Arrives
    /\ LET session_id == uuid4(uuid_count + 1)
           user_session_id ==
               IF usid = {} THEN uuid4(uuid_count + 2) ELSE CHOOSE u \in usid : TRUE
           hist == IF user_session_id \in DOMAIN conversation_history
                   THEN conversation_history
                   ELSE Put(conversation_history, user_session_id, <<>>)
           store == IF info # {}
                    THEN Put(user_info_storage, user_session_id, CHOOSE i \in info : TRUE)
                    ELSE user_info_storage
           user_info == stored_user_info(store, user_session_id)
           rec == [NewRequest("chat") EXCEPT
                     !.session_id = session_id, !.user_session_id = user_session_id,
                     !.query = message, !.req_user_info = info,
                     !.user_info = user_info]
       IN  /\ uuid_count' = uuid_count + (IF usid = {} THEN 2 ELSE 1)
           /\ user_info_storage' = store
           /\ IF sessions = <<>>
              THEN /\ conversation_history' =
                        append(append(hist, user_session_id, "user", message),
                               user_session_id, "assistant", NotInitializedReply)
                   /\ Answer(NewId, Response(rec, 200, NotInitializedReply,
                                             "not_initialized", "literal"))
              ELSE /\ conversation_history' = hist
                   /\ Suspend(NewId, [rec EXCEPT !.pc = "plan_list", !.idx = 1])
                   /\ UNCHANGED responses
    /\ UNCHANGED <<db_vars, cache_vars, tool_vars,
                   server_script_paths, catalogs, sessions, exit_stack, starting, released,
                   prompts, pending_tool_calls,
                   calls, consumed, tool_requests>>

\* A session.list_tools() of the planner returns and another session follows.
ChatListTools(r) ==
    /\ r \in DOMAIN requests /\ requests[r].pc = "plan_list"
    /\ requests[r].idx < Len(sessions)
    /\ requests' = [requests EXCEPT ![r].idx = @ + 1]
    /\ UNCHANGED <<db_vars, cache_vars, tool_vars,
                   server_script_paths, catalogs, sessions, exit_stack, starting, released,
                   prompts, pending_tool_calls,
                   conversation_history, user_info_storage, uuid_count,
                   request_count, responses, calls, consumed, tool_requests>>

\* A session.list_tools() of the planner raises, or the last one returns and
\* _call_gemini raises: the exception leaves chat and nothing is appended.
ChatRaises(r) ==
    /\ r \in DOMAIN requests /\ requests[r].pc = "plan_list"
    /\ Answer(r, Response(requests[r], 500, "", "raised", ""))
    /\ UNCHANGED <<db_vars, cache_vars, tool_vars,
                   server_script_paths, catalogs, sessions, exit_stack, starting, released,
                   prompts, pending_tool_calls,
                   conversation_history, user_info_storage, uuid_count,
                   request_count, calls, consumed, tool_requests>>

\* pending_tool_calls[session_id] = result["tool_data"]
store_pending(pending, session_id, data) == Put(pending, session_id, data)

\* Entries of the history the planner shows the model.
ContextWindow == 6

\* Mutant of recent_history: the window is the first entries of the history.
recent_history_oldest(history) ==
    SubSeq(history, 1, IF Len(history) > ContextWindow THEN ContextWindow
                       ELSE Len(history))

\* conversation_history[-6:]
recent_history(history) ==
    SubSeq(history,
           IF Len(history) > ContextWindow THEN Len(history) - ContextWindow + 1 ELSE 1,
           Len(history))

\* What the planner's _call_gemini is given by the request with locals rec:
\* the user context (the identity; every identity of UserInfos has a
\* user_id), the recent conversation and the user question.  The log keeps
\* it with the request token and the identity the request body carried.
prompt(rec, history) ==
    [session_id |-> rec.session_id, supplied |-> rec.req_user_info,
     user_info |-> rec.user_info, context |-> recent_history(history),
     query |-> rec.query]

\* Mutant of propose: the planner calls the tool itself (as process_query
\* does) in place of asking for authorization.
propose_and_call(r, rec, tool_name, tool_args) ==
    /\ pending_tool_calls' = pending_tool_calls
    /\ tool_requests' = tool_requests
    /\ responses' = responses
    /\ requests' = Put(requests, r,
         [rec EXCEPT !.pc = "exec_list", !.idx = 1, !.tool_name = tool_name,
                     !.tool_args = tool_args])

\* The model asked for a tool: process_query_with_auth returns the
\* authorization request and chat stores tool_data under the request token.
propose(r, rec, tool_name, tool_args) ==
    /\ pending_tool_calls' =
         store_pending(pending_tool_calls, rec.session_id,
             tool_data(tool_name, tool_args, rec.query, rec.user_info,
                       rec.user_session_id))
    /\ tool_requests' = tool_requests \cup
         {tool_request(rec.session_id, tool_name, tool_args, rec.user_session_id)}
    /\ Answer(r, Response([rec EXCEPT !.tool_name = tool_name], 200,
                          ProposalReply(tool_name), "proposal", "literal"))

\* The last list_tools() returns and _call_gemini answers initial_text: the
\* rest of process_query_with_auth and of chat runs without suspending.
ChatPlan(r, initial_text) ==
    /\ r \in DOMAIN requests /\ requests[r].pc = "plan_list"
    /\ requests[r].idx = Len(sessions)
    /\ LET rec == requests[r]
           us == rec.user_session_id
           parsed == _extract_json(initial_text)
           tool_name == parsed.tool
           tool_args == tool_args_of(parsed)
           hist == append(conversation_history, us, "user", rec.query)
       IN  IF parsed = NoParse \/ parsed.keys = {} \/ "tool" \notin parsed.keys
           THEN /\ conversation_history' = append(hist, us, "assistant", initial_text)
                /\ Answer(r, Response(rec, 200, initial_text, "answer", "model"))
                /\ UNCHANGED <<pending_tool_calls, tool_requests>>
           ELSE /\ conversation_history' = hist
                /\ propose(r, rec, tool_name, tool_args)
    /\ prompts' = prompts \cup
         {prompt(requests[r],
                 IF requests[r].user_session_id \in DOMAIN conversation_history
                 THEN conversation_history[requests[r].user_session_id] ELSE <<>>)}
    /\ UNCHANGED <<db_vars, cache_vars, tool_vars,
                   server_script_paths, catalogs, sessions, exit_stack, starting, released,
                   user_info_storage, uuid_count, request_count, calls, consumed>>

\* ------------------------------------------------------ POST /authorize_tool
\* The token is not pending: HTTPException(404).
AuthorizeUnknown(session_id, authorized) ==
    /\ Arrives
    /\ session_id \notin DOMAIN pending_tool_calls
    /\ responses' = responses \cup
         {Response([NewRequest("authorize_tool") EXCEPT
                      !.session_id = session_id, !.authorized = authorized],
                   404, "", "unknown_token", "")}
    /\ UNCHANGED <<db_vars, cache_vars, tool_vars,
                   server_script_paths, catalogs, sessions, exit_stack, starting, released,
                   prompts, pending_tool_calls,
                   conversation_history, user_info_storage, uuid_count, requests,
                   calls, consumed, tool_requests>>

\* Mutants of pop_pending: the entry is left in place; every entry is dropped.
pop_pending_keeps(pending, session_id) == pending
pop_pending_clears(pending, session_id) == <<>>

\* pending_tool_calls.pop(session_id)
pop_pending(pending, session_id) == Pop(pending, session_id)

\* The handler as it holds the popped tool_data.
Authorizing(session_id, authorized) ==
    LET data == pending_tool_calls[session_id]
    IN  [NewRequest("authorize_tool") EXCEPT
           !.session_id = session_id, !.authorized = authorized,
           !.user_session_id = data.user_session_id, !.query = data.query,
           !.user_info = data.user_info, !.tool_name = data.tool_name,
           !.tool_args = data.tool_args]

\* The pop as the log of consumed proposals records it.
Consumption(r, rec) ==
    [req |-> r, session_id |-> rec.session_id, authorized |-> rec.authorized,
     tool_name |-> rec.tool_name, tool_args |-> rec.tool_args]

\* Mutant of note_denial: the denial is not recorded.
note_denial_skipped(hist, data_user_session_id) == hist

\* The history after the denial is noted in the session of the popped entry.
note_denial(hist, data_user_session_id) ==
    append(hist, data_user_session_id, "assistant", DeniedReply)

\* The token is pending and the user denies: the entry is popped and the
\* denial is appended to the history of the proposing session.
AuthorizeDeny(session_id) ==
    /\ Arrives
    /\ session_id \in DOMAIN pending_tool_calls
    /\ LET rec == Authorizing(session_id, FALSE)
       IN  /\ pending_tool_calls' = pop_pending(pending_tool_calls, session_id)
           /\ consumed' = consumed \cup {Consumption(NewId, rec)}
           /\ conversation_history' =
                note_denial(conversation_history, rec.user_session_id)
           /\ responses' = responses \cup
                {Response(rec, 200, DeniedReply, "denied", "literal")}
    /\ UNCHANGED <<db_vars, cache_vars, tool_vars,
                   server_script_paths, catalogs, sessions, exit_stack, starting, released,
                   prompts, user_info_storage,
                   uuid_count, requests, calls, tool_requests>>

\* execute_tool_call up to its first await, entered by the handler of rec:
\* the handler as it suspends in the first session.list_tools().
EnterExecutor(rec) == [rec EXCEPT !.pc = "exec_list", !.idx = 1]

\* The token is pending and the user approves: the entry is popped and
\* execute_tool_call is entered with the popped tool name, arguments, query
\* and user info.
AuthorizeApprove(session_id) ==
    /\ Arrives
    /\ session_id \in DOMAIN pending_tool_calls
    /\ LET rec == Authorizing(session_id, TRUE)
       IN  /\ pending_tool_calls' = pop_pending(pending_tool_calls, session_id)
           /\ consumed' = consumed \cup {Consumption(NewId, rec)}
           /\ IF sessions = <<>>
              THEN /\ conversation_history' =
                        append(conversation_history, rec.user_session_id,
                               "assistant", NotInitializedReply)
                   /\ Answer(NewId, Response(rec, 200, NotInitializedReply,
                                             "not_initialized", "literal"))
              ELSE /\ conversation_history' = conversation_history
                   /\ Suspend(NewId, EnterExecutor(rec))
                   /\ UNCHANGED responses
    /\ UNCHANGED <<db_vars, cache_vars, tool_vars,
                   server_script_paths, catalogs, sessions, exit_stack, starting, released,
                   prompts, user_info_storage,
                   uuid_count, calls, tool_requests>>

\* -------------------------------------------------------- POST /execute_tool
\* execute_tool up to the first await: no token is read, the tool name and
\* the arguments are those of the request body.
ExecuteToolStart(tool_name, tool_args, usid, info) ==
    /\ Arrives
    /\ LET user_session_id == IF usid = {} THEN "default" ELSE CHOOSE u \in usid : TRUE
           user_info == IF info # {} THEN info
                        ELSE IF user_session_id \in DOMAIN user_info_storage
                             THEN {user_info_storage[user_session_id]} ELSE {}
           rec == [NewRequest("execute_tool") EXCEPT
                     !.user_session_id = user_session_id,
                     !.query = "Execute " \o tool_name,
                     !.req_user_info = info, !.user_info = user_info,
                     !.tool_name = tool_name, !.tool_args = tool_args]
       IN  IF sessions = <<>>
           THEN /\ conversation_history' =
                     append(conversation_history, user_session_id,
                            "assistant", NotInitializedReply)
                /\ Answer(NewId, Response(rec, 200, NotInitializedReply,
                                          "not_initialized", "literal"))
           ELSE /\ conversation_history' = conversation_history
                /\ Suspend(NewId, EnterExecutor(rec))
                /\ UNCHANGED responses
    /\ UNCHANGED <<db_vars, cache_vars, tool_vars,
                   server_script_paths, catalogs, sessions, exit_stack, starting, released,
                   prompts, pending_tool_calls,
                   user_info_storage, uuid_count, calls, consumed, tool_requests>>

\* ------------------------------------------------- execute_tool_call, resumed
\* Mutant of ExecutorReturns: the caller answers without appending the reply.
ExecutorReturns_silent(r, reply, outcome, via) ==
    /\ conversation_history' = conversation_history
    /\ Answer(r, Response(requests[r], 200, reply, outcome, via))

\* execute_tool_call returns reply to its caller, which appends it to the
\* history of the session (when it has one) and answers.
ExecutorReturns(r, reply, outcome, via) ==
    /\ conversation_history' =
         append(conversation_history, requests[r].user_session_id, "assistant", reply)
    /\ Answer(r, Response(requests[r], 200, reply, outcome, via))

\* An exception leaves execute_tool_call: /authorize_tool lets it through,
\* /execute_tool catches it and answers {"reply": None, "error": str(e)}.
ExecutorRaises(r) ==
    /\ conversation_history' = conversation_history
    /\ Answer(r, IF requests[r].kind = "execute_tool"
                 THEN Response(requests[r], 200, "", "error", "")
                 ELSE Response(requests[r], 500, "", "raised", ""))

\* Mutant of session_at: the loop reads the first session on every pass.
session_at_first(r) == sessions[1].session

\* The session the loop of execute_tool_call is at.
session_at(r) == sessions[requests[r].idx].session

\* Mutant of lists_tool: the membership test is dropped.
lists_tool_any(session, tool_name) == TRUE

\* tool_name in tool_names, for the catalog the session listed
lists_tool(session, tool_name) == tool_name \in catalogs[session]

\* list_tools() returns without the tool and another session follows.
ExecListTools(r) ==
    /\ r \in DOMAIN requests /\ requests[r].pc = "exec_list"
    /\ ~lists_tool(session_at(r), requests[r].tool_name)
    /\ requests[r].idx < Len(sessions)
    /\ requests' = [requests EXCEPT ![r].idx = @ + 1]
    /\ UNCHANGED <<db_vars, cache_vars, tool_vars,
                   server_script_paths, catalogs, sessions, exit_stack, starting, released,
                   prompts, pending_tool_calls,
                   conversation_history, user_info_storage, uuid_count,
                   request_count, responses, calls, consumed, tool_requests>>

\* list_tools() returns with the tool: session.call_tool(tool_name, tool_args)
\* is made and awaited.
ExecCallTool(r) ==
    /\ r \in DOMAIN requests /\ requests[r].pc = "exec_list"
    /\ lists_tool(session_at(r), requests[r].tool_name)
    /\ calls' = calls \cup
         {[req |-> r, kind |-> requests[r].kind, session |-> session_at(r),
           tool_name |-> requests[r].tool_name, tool_args |-> requests[r].tool_args]}
    /\ requests' = [requests EXCEPT ![r].pc = "exec_call"]
    /\ UNCHANGED <<db_vars, cache_vars, tool_vars,
                   server_script_paths, catalogs, sessions, exit_stack, starting, released,
                   prompts, pending_tool_calls,
                   conversation_history, user_info_storage, uuid_count,
                   request_count, responses, consumed, tool_requests>>

\* The last list_tools() returns without the tool: call_result is None.
ExecNotFound(r) ==
    /\ r \in DOMAIN requests /\ requests[r].pc = "exec_list"
    /\ ~lists_tool(session_at(r), requests[r].tool_name)
    /\ requests[r].idx = Len(sessions)
    /\ ExecutorReturns(r, NotFoundReply(requests[r].tool_name), "not_found", "literal")
    /\ UNCHANGED <<db_vars, cache_vars, tool_vars,
                   server_script_paths, catalogs, sessions, exit_stack, starting, released,
                   prompts, pending_tool_calls,
                   user_info_storage, uuid_count, request_count, calls, consumed,
                   tool_requests>>

\* Mutant of ExecCallReturns: a final answer that asks for a tool is followed.
ExecCallReturns_follows(r, final_answer) ==
    /\ r \in DOMAIN requests /\ requests[r].pc = "exec_call"
    /\ IF "tool" \in _extract_json(final_answer).keys
       THEN /\ requests' = [requests EXCEPT
                               ![r].pc = "exec_list", ![r].idx = 1,
                               ![r].tool_name = _extract_json(final_answer).tool]
            /\ UNCHANGED <<conversation_history, responses>>
       ELSE ExecutorReturns(r, final_answer, "tool_result", "model")
    /\ UNCHANGED <<db_vars, cache_vars, tool_vars,
                   server_script_paths, catalogs, sessions, exit_stack, starting, released,
                   prompts, pending_tool_calls,
                   user_info_storage, uuid_count, request_count, calls, consumed,
                   tool_requests>>

\* call_tool returns a result and _call_gemini writes final_answer.
ExecCallReturns(r, final_answer) ==
    /\ r \in DOMAIN requests /\ requests[r].pc = "exec_call"
    /\ ExecutorReturns(r, final_answer, "tool_result", "model")
    /\ UNCHANGED <<db_vars, cache_vars, tool_vars,
                   server_script_paths, catalogs, sessions, exit_stack, starting, released,
                   prompts, pending_tool_calls,
                   user_info_storage, uuid_count, request_count, calls, consumed,
                   tool_requests>>

\* Mutant of ExecCallRaises: the exception of call_tool leaves the executor.
ExecCallRaises_propagates(r, explanation) ==
    /\ r \in DOMAIN requests /\ requests[r].pc = "exec_call"
    /\ ExecutorRaises(r)
    /\ UNCHANGED <<db_vars, cache_vars, tool_vars,
                   server_script_paths, catalogs, sessions, exit_stack, starting, released,
                   prompts, pending_tool_calls,
                   user_info_storage, uuid_count, request_count, calls, consumed,
                   tool_requests>>

\* call_tool raises and _call_gemini explains the error.
ExecCallRaises(r, explanation) ==
    /\ r \in DOMAIN requests /\ requests[r].pc = "exec_call"
    /\ ExecutorReturns(r, explanation, "tool_error", "model")
    /\ UNCHANGED <<db_vars, cache_vars, tool_vars,
                   server_script_paths, catalogs, sessions, exit_stack, starting, released,
                   prompts, pending_tool_calls,
                   user_info_storage, uuid_count, request_count, calls, consumed,
                   tool_requests>>

\* list_tools() raises, or call_tool returns or raises and the _call_gemini
\* that follows raises.
ExecRaises(r) ==
    /\ r \in DOMAIN requests /\ requests[r].pc \in {"exec_list", "exec_call"}
    /\ ExecutorRaises(r)
    /\ UNCHANGED <<db_vars, cache_vars, tool_vars,
                   server_script_paths, catalogs, sessions, exit_stack, starting, released,
                   prompts, pending_tool_calls,
                   user_info_storage, uuid_count, request_count, calls, consumed,
                   tool_requests>>

\* ----------------------------------------------------- startup and shutdown
\* The contexts startup has entered on the exit stack once the first n
\* providers have started: for each, its stdio_client and its ClientSession.
acquired(n) ==
    [i \in 1..(2 * n) |->
        [kind |-> IF i % 2 = 1 THEN "stdio" ELSE "session",
         provider |-> (i + 1) \div 2]]

\* startup has returned: every provider of the list is started.
Started ==
    /\ exit_stack = acquired(Len(server_script_paths))
    /\ starting = [pc |-> "done", idx |-> Len(server_script_paths)]
    /\ released = <<>>

\* The contexts of stack that are no longer in rest, a subsequence of stack.
Exited(stack, rest) ==
    LET gone == {i \in 1..Len(stack) :
                   \A j \in 1..Len(rest) : rest[j] # stack[i]}
    IN  IF gone = {} THEN <<>> ELSE <<stack[CHOOSE i \in gone : TRUE]>>

\* Mutant of next_exit: aclose() exits the context entered first.
next_exit_oldest(stack) == 1

\* The index of the context aclose() exits next: the exit stack is LIFO.
next_exit(stack) == Len(stack)

\* The exit stack without its i-th context.
without(stack, i) ==
    [j \in 1..(Len(stack) - 1) |-> IF j < i THEN stack[j] ELSE stack[j + 1]]

\* startup or shutdown passes from one await to the next; nothing else of
\* the host moves.  A context that leaves the exit stack has been exited.
StartupStep(pc, idx, stack, reg) ==
    /\ starting' = [pc |-> pc, idx |-> idx]
    /\ exit_stack' = stack
    /\ released' = released \o Exited(exit_stack, stack)
    /\ sessions' = reg
    /\ UNCHANGED <<db_vars, cache_vars, tool_vars,
                   server_script_paths, catalogs, pending_tool_calls,
                   conversation_history, user_info_storage, uuid_count,
                   request_count, requests, responses, calls, consumed,
                   tool_requests, prompts>>

\* Mutant of raise_from_startup: the exit stack is closed before the
\* exception leaves.
raise_from_startup_closing(stack) == <<>>

\* An exception leaves startup: no handler closes the exit stack, which is
\* left as it is.
raise_from_startup(stack) == stack

\* The loop reaches the next script path (or ends): the path exists and is a
\* file, and stdio_client(server_params) is entered.
StartupSpawn ==
    /\ starting.pc = "spawn"
    /\ IF starting.idx > Len(server_script_paths)
       THEN StartupStep("done", Len(server_script_paths), exit_stack, sessions)
       ELSE StartupStep("handshake", starting.idx,
                        Append(exit_stack, [kind |-> "stdio", provider |-> starting.idx]),
                        sessions)

\* The path is missing or no file (RuntimeError), or entering stdio_client
\* raises: nothing of this provider is on the exit stack.
StartupSpawnFails ==
    /\ starting.pc = "spawn"
    /\ starting.idx <= Len(server_script_paths)
    /\ StartupStep("failed", starting.idx, raise_from_startup(exit_stack), sessions)

\* ClientSession(read, write) is entered, session.initialize() returns and
\* the session is stored under the stem of its path.
StartupHandshake ==
    /\ starting.pc = "handshake"
    /\ StartupStep("list", starting.idx,
                   Append(exit_stack, [kind |-> "session", provider |-> starting.idx]),
                   register(sessions, stem(server_script_paths[starting.idx]),
                            starting.idx))

\* session.initialize() raises: the stdio_client and the ClientSession of
\* this provider are on the exit stack, the session is not stored.
StartupHandshakeFails ==
    /\ starting.pc = "handshake"
    /\ StartupStep("failed", starting.idx,
                   raise_from_startup(
                       Append(exit_stack,
                              [kind |-> "session", provider |-> starting.idx])),
                   sessions)

\* session.list_tools() returns and the loop goes on.
StartupListTools ==
    /\ starting.pc = "list"
    /\ StartupStep("spawn", starting.idx + 1, exit_stack, sessions)

\* session.list_tools() raises after the session was stored.
StartupListToolsFails ==
    /\ starting.pc = "list"
    /\ StartupStep("failed", starting.idx, raise_from_startup(exit_stack), sessions)

\* on_shutdown: host.shutdown() awaits exit_stack.aclose().
Shutdown ==
    /\ starting.pc \in {"done", "failed"}
    /\ StartupStep("closing", starting.idx, exit_stack, sessions)

\* aclose() exits the context entered last.
ShutdownExit ==
    /\ starting.pc = "closing"
    /\ exit_stack # <<>>
    /\ StartupStep("closing", starting.idx,
                   without(exit_stack, next_exit(exit_stack)), sessions)

\* aclose() returns.
ShutdownReturns ==
    /\ starting.pc = "closing"
    /\ exit_stack = <<>>
    /\ StartupStep("stopped", starting.idx, exit_stack, sessions)

\* ------------------------------------------------------------------ db.py
\* The flights table is seeded with one flight; a client may also name a
\* flight that does not exist.
FlightId == "FL-000001"
NoFlight == "FL-999999"

\* available_seats of a seeded flight, seats one booking may ask for, and
\* calls of db.py functions in one run.
Capacity == 2
MaxSeats == 2
MaxDbCalls == 4

\* The characters of uuid4().hex, and str.upper() on one character.
LowerHex == {"0", "1", "2", "3", "4", "5", "6", "7", "8", "9",
             "a", "b", "c", "d", "e", "f"}
upper(c) ==
    CASE c = "a" -> "A" [] c = "b" -> "B" [] c = "c" -> "C"
      [] c = "d" -> "D" [] c = "e" -> "E" [] c = "f" -> "F" [] OTHER -> c

\* The decimal digit n, as a character.
Digit(n) ==
    CASE n = 0 -> "0" [] n = 1 -> "1" [] n = 2 -> "2" [] n = 3 -> "3" [] n = 4 -> "4"
      [] n = 5 -> "5" [] n = 6 -> "6" [] n = 7 -> "7" [] n = 8 -> "8" [] n = 9 -> "9"

\* uuid4().hex[:10] of the n-th booking, as a list of characters cut to two:
\* the first is any hex digit, the second makes the value differ from every
\* value returned before.
uuid4_hex(n, head) == <<head, Digit(n)>>

\* The first characters the runs draw: a decimal digit and a letter.
HexHeads == {"4", "c"}

\* f"BK-{uuid4().hex[:10].upper()}"
booking_id(hex) == <<"B", "K", "-">> \o [i \in 1..Len(hex) |-> upper(hex[i])]

\* A well-formed booking id that create_booking never returned.
UnknownBookingId == <<"B", "K", "-", "0", "0">>

\* hold_expires_at of a new booking: utcnow() + hold_minutes for a HELD
\* booking with a positive hold_minutes, else NULL.  hold_minutes None is 0.
hold_expires_at(status, hold_minutes) ==
    IF status = "HELD" /\ hold_minutes > 0 THEN {now + hold_minutes} ELSE {}

\* The datastore after seed_flights_if_empty.
InitDatastore ==
    /\ flights = [f \in {FlightId} |-> Capacity]
    /\ bookings = <<>>
    /\ booking_count = 0
    /\ db_calls = <<>>
    /\ db_count = 0
    /\ db_returns = {}

\* A call of a db.py function starts: its number.
DbArrives == db_count < MaxDbCalls /\ db_count' = db_count + 1
NewDbCall == db_count + 1

\* The locals of a call of a db.py function.
DbCall(op, flight_id, seats, status, expires, id) ==
    [op |-> op, flight_id |-> flight_id, seats |-> seats, status |-> status,
     hold_expires_at |-> expires, booking_id |-> id]

\* What a finished call hands to its caller, as the log keeps it, with what
\* the call was given.
DbReturn(c, call, result) ==
    [call |-> c, op |-> call.op, flight_id |-> call.flight_id, seats |-> call.seats,
     booking_id |-> call.booking_id, result |-> result]

\* Mutant of check_seat_availability: every request is available.
check_seat_availability_trusting(flight_id, seats_requested) ==
    [available |-> TRUE, seats_remaining |-> 0, error |-> ""]

\* check_seat_availability: one SELECT on a connection of its own.
check_seat_availability(flight_id, seats_requested) ==
    IF flight_id \notin DOMAIN flights
    THEN [available |-> FALSE, seats_remaining |-> 0, error |-> "Flight not found"]
    ELSE [available |-> flights[flight_id] >= seats_requested,
          seats_remaining |-> flights[flight_id], error |-> ""]

\* UPDATE flights SET available_seats = available_seats + delta WHERE id = ?
update_seats(table, flight_id, delta) ==
    IF flight_id \in DOMAIN table
    THEN [table EXCEPT ![flight_id] = @ + delta] ELSE table

\* create_booking up to the INSERT: the availability check has returned on
\* its own connection, which is closed; the booking id is minted, the expiry
\* of the hold is computed and a second connection is opened.  Other threads
\* of flight_api.py run in between.
CreateBookingStart(flight_id, seats, status, hold_minutes, head) ==
    /\ DbArrives
    /\ LET availability == check_seat_availability(flight_id, seats)
           id == booking_id(uuid4_hex(booking_count + 1, head))
       IN  IF ~availability.available
           THEN /\ db_returns' = db_returns \cup
                     {DbReturn(NewDbCall,
                               DbCall("create_booking", flight_id, seats, status, {}, <<>>),
                               "ValueError")}
                /\ UNCHANGED <<db_calls, booking_count>>
           ELSE /\ booking_count' = booking_count + 1
                /\ db_calls' = Put(db_calls, NewDbCall,
                     DbCall("create_booking", flight_id, seats, status,
                            hold_expires_at(status, hold_minutes), id))
                /\ UNCHANGED db_returns
    /\ UNCHANGED <<flights, bookings, host_vars, cache_vars, tool_vars>>

\* The transaction of create_booking commits: the row is inserted and the
\* seats are taken off the counter, whatever it holds by now.
CreateBookingCommit(c) ==
    /\ c \in DOMAIN db_calls /\ db_calls[c].op = "create_booking"
    /\ bookings' = Put(bookings, db_calls[c].booking_id,
         [flight_id |-> db_calls[c].flight_id, seats |-> db_calls[c].seats,
          status |-> db_calls[c].status,
          hold_expires_at |-> db_calls[c].hold_expires_at])
    /\ flights' = update_seats(flights, db_calls[c].flight_id, 0 - db_calls[c].seats)
    /\ db_calls' = Pop(db_calls, c)
    /\ db_returns' = db_returns \cup {DbReturn(c, db_calls[c], "row")}
    /\ UNCHANGED <<booking_count, db_count, host_vars, cache_vars, tool_vars>>

\* A statement of the transaction raises (the database is locked): rollback,
\* and the exception is raised again.
DbRollsBack(c) ==
    /\ c \in DOMAIN db_calls
    /\ db_calls' = Pop(db_calls, c)
    /\ db_returns' = db_returns \cup {DbReturn(c, db_calls[c], "OperationalError")}
    /\ UNCHANGED <<flights, bookings, booking_count, db_count, host_vars, cache_vars,
                   tool_vars>>

\* Mutant of DeleteBookingStart: a missing row is reported as deleted.
DeleteBookingStart_lenient(id) ==
    /\ DbArrives
    /\ IF id \notin DOMAIN bookings
       THEN /\ db_returns' = db_returns \cup
                 {DbReturn(NewDbCall, DbCall("delete_booking", "", 0, "", {}, id), "True")}
            /\ UNCHANGED db_calls
       ELSE /\ db_calls' = Put(db_calls, NewDbCall,
                 DbCall("delete_booking", bookings[id].flight_id, bookings[id].seats,
                        bookings[id].status, bookings[id].hold_expires_at, id))
            /\ UNCHANGED db_returns
    /\ UNCHANGED <<flights, bookings, booking_count, host_vars, cache_vars, tool_vars>>

\* delete_booking up to the DELETE: the SELECT has returned the row (or none:
\* return False).  The transaction begins with the DELETE, so other threads
\* run in between.
DeleteBookingStart(id) ==
    /\ DbArrives
    /\ IF id \notin DOMAIN bookings
       THEN /\ db_returns' = db_returns \cup
                 {DbReturn(NewDbCall, DbCall("delete_booking", "", 0, "", {}, id), "False")}
            /\ UNCHANGED db_calls
       ELSE /\ db_calls' = Put(db_calls, NewDbCall,
                 DbCall("delete_booking", bookings[id].flight_id, bookings[id].seats,
                        bookings[id].status, bookings[id].hold_expires_at, id))
            /\ UNCHANGED db_returns
    /\ UNCHANGED <<flights, bookings, booking_count, host_vars, cache_vars, tool_vars>>

\* The transaction of delete_booking commits: the row, if it is still there,
\* is deleted and the seats read by the SELECT are given back.
DeleteBookingCommit(c) ==
    /\ c \in DOMAIN db_calls /\ db_calls[c].op = "delete_booking"
    /\ bookings' = IF db_calls[c].booking_id \in DOMAIN bookings
                   THEN Pop(bookings, db_calls[c].booking_id) ELSE bookings
    /\ flights' = update_seats(flights, db_calls[c].flight_id, db_calls[c].seats)
    /\ db_calls' = Pop(db_calls, c)
    /\ db_returns' = db_returns \cup {DbReturn(c, db_calls[c], "True")}
    /\ UNCHANGED <<booking_count, db_count, host_vars, cache_vars, tool_vars>>

\* Mutant of update_booking_status: the expiry of the hold is kept.
update_booking_status_keeps_expiry(table, id, new_status) ==
    IF id \in DOMAIN table
    THEN [table EXCEPT ![id].status = new_status]
    ELSE table

\* update_booking_status: one UPDATE that sets the status and clears the
\* expiry of the hold, the commit, and the row (or None) read back.
update_booking_status(table, id, new_status) ==
    IF id \in DOMAIN table
    THEN [table EXCEPT ![id].status = new_status, ![id].hold_expires_at = {}]
    ELSE table

UpdateBookingStatus(id, new_status) ==
    /\ DbArrives
    /\ bookings' = update_booking_status(bookings, id, new_status)
    /\ db_returns' = db_returns \cup
         {DbReturn(NewDbCall, DbCall("update_booking_status", "", 0, new_status, {}, id),
                   IF id \in DOMAIN bookings THEN "row" ELSE "None")}
    /\ UNCHANGED <<flights, booking_count, db_calls, host_vars, cache_vars, tool_vars>>

\* The booking ids a client may name: the ones create_booking has returned
\* and one it never returned.
BookingIds ==
    {r.booking_id : r \in {x \in db_returns : x.op = "create_booking" /\ x.result = "row"}}
      \cup {UnknownBookingId}

\* The threads of flight_api.py create and delete bookings.
NextDatastore ==
    \/ \E f \in {FlightId, NoFlight}, n \in 1..MaxSeats :
         CreateBookingStart(f, n, "CONFIRMED", 0, "c")
    \/ \E c \in DOMAIN db_calls : CreateBookingCommit(c)
    \/ \E id \in BookingIds : DeleteBookingStart(id)
    \/ \E c \in DOMAIN db_calls : DeleteBookingCommit(c)
    \/ \E c \in DOMAIN db_calls : DbRollsBack(c)

\* ----------------------------------------------------------- flightbooking.py
\* Tool calls in one run, and the minutes the clock runs.
MaxToolCalls == 2
MaxTime == 2

\* The clock and the booking provider at rest.
InitTools ==
    /\ now = 0
    /\ tool_calls = <<>>
    /\ tool_count = 0
    /\ tool_returns = {}

\* A minute passes.
Tick ==
    /\ now < MaxTime
    /\ now' = now + 1
    /\ UNCHANGED <<tool_calls, tool_count, tool_returns, host_vars, db_vars, cache_vars>>

\* A booking id that is not of the form BK-...
MalformedBookingId == <<"b", "k", "0", "0">>

\* validate_booking_id: the pattern ^BK-[a-f0-9]+$ of BookingIdValidation.
validate_booking_id(id) ==
    /\ Len(id) > 3
    /\ <<id[1], id[2], id[3]>> = <<"B", "K", "-">>
    /\ \A i \in 4..Len(id) : id[i] \in LowerHex

\* The tools that take a booking id.
BookingTools == {"get_booking_details", "confirm_held_booking", "cancel_booking"}

\* The hold of a row has an expiry that has passed.
expired(row) == \E t \in row.hold_expires_at : now > t

\* What a finished tool call returned, as the log keeps it; held_expired
\* tells whether the call was made on a HELD booking whose hold had expired.
ToolReturn(call, result) ==
    [tool |-> call.tool, booking_id |-> call.booking_id,
     held_expired |-> call.held_expired, result |-> result]

\* A tool call leaves with a reply.
ToolReturns(c, result) ==
    /\ tool_calls' = Pop(tool_calls, c)
    /\ tool_returns' = tool_returns \cup {ToolReturn(tool_calls[c], result)}

\* A tool is called with a booking id: the id is validated, and a valid id
\* is looked up with get_booking_via_api, which the tool awaits.
ToolStart(tool, id) ==
    /\ tool_count < MaxToolCalls
    /\ tool_count' = tool_count + 1
    /\ LET call == [tool |-> tool, booking_id |-> id, pc |-> "get",
                    held_expired |-> /\ id \in DOMAIN bookings
                                     /\ bookings[id].status = "HELD"
                                     /\ expired(bookings[id])]
       IN  IF ~validate_booking_id(id)
           THEN /\ tool_returns' = tool_returns \cup
                     {ToolReturn(call, "invalid_id")}
                /\ UNCHANGED tool_calls
           ELSE /\ tool_calls' = Put(tool_calls, tool_count + 1, call)
                /\ UNCHANGED tool_returns
    /\ UNCHANGED <<now, host_vars, db_vars, cache_vars>>

\* Mutant of after_lookup: confirm_held_booking does not look at the status.
after_lookup_any_status(tool, row) ==
    CASE tool = "get_booking_details" -> "reply_details"
      [] tool = "cancel_booking" -> "cancel"
      [] tool = "confirm_held_booking" ->
           IF expired(row) THEN "expire" ELSE "update"

\* Where a tool goes on with the booking it was given; reply for a reply.
after_lookup(tool, row) ==
    CASE tool = "get_booking_details" -> "reply_details"
      [] tool = "cancel_booking" -> "cancel"
      [] tool = "confirm_held_booking" ->
           IF row.status # "HELD" THEN "reply_not_on_hold"
           ELSE IF expired(row) THEN "expire" ELSE "update"

\* get_booking_via_api returns: None for a booking the backend does not have
\* and for every failure of the request, else the row.
ToolGetBooking(c, answer) ==
    /\ c \in DOMAIN tool_calls /\ tool_calls[c].pc = "get"
    /\ LET id == tool_calls[c].booking_id
           next == IF answer = "unavailable" \/ id \notin DOMAIN bookings
                   THEN "reply_not_found"
                   ELSE after_lookup(tool_calls[c].tool, bookings[id])
       IN  CASE next = "reply_not_found" -> ToolReturns(c, "not_found")
             [] next = "reply_details" -> ToolReturns(c, "details")
             [] next = "reply_not_on_hold" -> ToolReturns(c, "not_on_hold")
             [] OTHER -> /\ tool_calls' = [tool_calls EXCEPT ![c].pc = next]
                         /\ UNCHANGED tool_returns
    /\ UNCHANGED <<now, tool_count, host_vars, db_vars, cache_vars>>

\* delete_booking_via_api returns.  The backend has run delete_booking, which
\* deletes the row and gives its seats back, or it has not (404 for a row
\* that is gone, an error status, a timeout): then the helper returns an
\* error.  cancel_booking reports the error; confirm_held_booking does not
\* look at the result and reports the expired hold as cancelled.
ToolDeleteBooking(c, answer) ==
    /\ c \in DOMAIN tool_calls /\ tool_calls[c].pc \in {"cancel", "expire"}
    /\ LET id == tool_calls[c].booking_id
           deleted == answer = "ok" /\ id \in DOMAIN bookings
       IN  /\ bookings' = IF deleted THEN Pop(bookings, id) ELSE bookings
           /\ flights' = IF deleted
                         THEN update_seats(flights, bookings[id].flight_id, bookings[id].seats)
                         ELSE flights
           /\ ToolReturns(c, IF tool_calls[c].pc = "expire" THEN "hold_expired"
                             ELSE IF deleted THEN "cancelled" ELSE "cancellation_failed")
    /\ UNCHANGED <<now, tool_count, booking_count, db_calls, db_count, db_returns,
                   host_vars, cache_vars>>

\* update_booking_via_api(booking_id, "CONFIRMED") returns.  The backend has
\* run update_booking_status, or the request has failed; for a row that is
\* gone update_booking_status returns None and the endpoint fails on it.
ToolUpdateBooking(c, answer) ==
    /\ c \in DOMAIN tool_calls /\ tool_calls[c].pc = "update"
    /\ LET id == tool_calls[c].booking_id
           updated == answer = "ok" /\ id \in DOMAIN bookings
       IN  /\ bookings' = IF updated
                          THEN update_booking_status(bookings, id, "CONFIRMED")
                          ELSE bookings
           /\ ToolReturns(c, IF updated THEN "confirmed" ELSE "confirmation_failed")
    /\ UNCHANGED <<now, tool_count, flights, booking_count, db_calls, db_count,
                   db_returns, host_vars, cache_vars>>

\* What the backend does with a request of a tool.
ApiAnswers == {"ok", "unavailable"}

\* The run follows one booking: hold_flight, book_flight or another client of
\* the API creates it, a client sets its status once, the tools are called
\* with booking ids, and time passes.
NextHolds ==
    \/ \E status \in {"HELD", "CONFIRMED"}, head \in HexHeads :
         booking_count = 0 /\ CreateBookingStart(FlightId, 1, status, 1, head)
    \/ \E c \in DOMAIN db_calls : CreateBookingCommit(c)
    \/ \E id \in BookingIds, status \in {"CONFIRMED", "CANCELLED"} :
         /\ \A r \in db_returns : r.op # "update_booking_status"
         /\ UpdateBookingStatus(id, status)
    \/ \E tool \in BookingTools, id \in BookingIds \cup {MalformedBookingId} :
         ToolStart(tool, id)
    \/ \E c \in DOMAIN tool_calls, answer \in ApiAnswers : ToolGetBooking(c, answer)
    \/ \E c \in DOMAIN tool_calls, answer \in ApiAnswers : ToolDeleteBooking(c, answer)
    \/ \E c \in DOMAIN tool_calls, answer \in ApiAnswers : ToolUpdateBooking(c, answer)
    \/ Tick

\* ---------------------------------------------------------- flightsearch.py
\* Entries the cache holds at most (the program's value is 100), and
\* search_flights calls in one run.
MAX_CACHE_SIZE == 2
MaxSearches == 4

\* Valid cache keys (origin, destination, date).
CacheKeys ==
    {<<"ATH", "BCN", "2025-12-03">>, <<"ATH", "LHR", "2025-12-03">>,
     <<"LHR", "CDG", "2025-12-04">>, <<"CDG", "FRA", "2025-12-05">>}

\* What fetch_flights_from_api may return: None, [] or flights.
BackendAnswers == {"None", "empty", "flights"}

\* The reply search_flights builds from the backend's answer.
ResultOf(answer) ==
    CASE answer = "None" -> "Unable to search flights"
      [] answer = "empty" -> "No flights available"
      [] answer = "flights" -> "Found 1 flight(s)"

\* What a finished search_flights call returned, and whether the reply came
\* from the cache or was built from the backend's answer.
SearchReturn(key, result, via) ==
    [key |-> key, result |-> result, via |-> via]

InitCache ==
    /\ flight_cache = <<>>
    /\ cache_stats = [cache_hits |-> 0, cache_misses |-> 0, cache_evictions |-> 0]
    /\ searches = <<>>
    /\ search_count = 0
    /\ uses = <<>>
    /\ search_returns = {}

\* The keys of an OrderedDict, and the place of a key in it.
keys_of(cache) == {cache[i].key : i \in 1..Len(cache)}
index_of(cache, key) == CHOOSE i \in 1..Len(cache) : cache[i].key = key

\* Mutant of move_to_end: the hit leaves the order as it is.
move_to_end_skipped(cache, key) == cache

\* flight_cache.move_to_end(key)
move_to_end(cache, key) ==
    Append(without(cache, index_of(cache, key)), cache[index_of(cache, key)])

\* _add_to_cache evicts: the cache is full and the key is new.
evicts(cache, key) == Len(cache) >= MAX_CACHE_SIZE /\ key \notin keys_of(cache)

\* Mutant of _add_to_cache: nothing is evicted.
_add_to_cache_keeps(cache, key, value) ==
    IF key \in keys_of(cache)
    THEN [cache EXCEPT ![index_of(cache, key)].value = value]
    ELSE Append(cache, [key |-> key, value |-> value])

\* _add_to_cache: the first entry is popped when the cache is full and the
\* key is new; flight_cache[key] = value then replaces the value of a key
\* the dict holds, in place, or puts a new key at the end.
_add_to_cache(cache, key, value) ==
    LET kept == IF evicts(cache, key) THEN Tail(cache) ELSE cache
    IN  IF key \in keys_of(kept)
        THEN [kept EXCEPT ![index_of(kept, key)].value = value]
        ELSE Append(kept, [key |-> key, value |-> value])

\* search_flights up to its await, for valid parameters: a hit returns the
\* cached value, a miss asks the backend.
SearchFlightsStart(key) ==
    /\ search_count < MaxSearches
    /\ search_count' = search_count + 1
    /\ IF key \in keys_of(flight_cache)
       THEN /\ cache_stats' = [cache_stats EXCEPT !.cache_hits = @ + 1]
            /\ flight_cache' = move_to_end(flight_cache, key)
            /\ uses' = Append(uses, key)
            /\ search_returns' = search_returns \cup
                 {SearchReturn(key, flight_cache[index_of(flight_cache, key)].value,
                               "cache")}
            /\ UNCHANGED searches
       ELSE /\ cache_stats' = [cache_stats EXCEPT !.cache_misses = @ + 1]
            /\ searches' = Put(searches, search_count + 1, key)
            /\ UNCHANGED <<flight_cache, uses, search_returns>>
    /\ UNCHANGED <<host_vars, db_vars, tool_vars>>

\* Mutant of SearchFlightsAnswer: the reply to a failure is cached too.
SearchFlightsAnswer_caches_failure(s, answer) ==
    /\ s \in DOMAIN searches
    /\ searches' = Pop(searches, s)
    /\ search_returns' = search_returns \cup
         {SearchReturn(searches[s], ResultOf(answer), "backend")}
    /\ flight_cache' = _add_to_cache(flight_cache, searches[s], ResultOf(answer))
    /\ cache_stats' =
         IF evicts(flight_cache, searches[s])
         THEN [cache_stats EXCEPT !.cache_evictions = @ + 1] ELSE cache_stats
    /\ uses' = IF searches[s] \in keys_of(flight_cache) THEN uses
               ELSE Append(uses, searches[s])
    /\ UNCHANGED <<search_count, host_vars, db_vars, tool_vars>>

\* fetch_flights_from_api returns: None is answered without caching, an
\* empty or a non-empty list is formatted and added to the cache.
SearchFlightsAnswer(s, answer) ==
    /\ s \in DOMAIN searches
    /\ searches' = Pop(searches, s)
    /\ search_returns' = search_returns \cup
         {SearchReturn(searches[s], ResultOf(answer), "backend")}
    /\ IF answer = "None"
       THEN UNCHANGED <<flight_cache, cache_stats, uses>>
       ELSE /\ flight_cache' = _add_to_cache(flight_cache, searches[s], ResultOf(answer))
            /\ cache_stats' =
                 IF evicts(flight_cache, searches[s])
                 THEN [cache_stats EXCEPT !.cache_evictions = @ + 1] ELSE cache_stats
            /\ uses' = IF searches[s] \in keys_of(flight_cache) THEN uses
                       ELSE Append(uses, searches[s])
    /\ UNCHANGED <<search_count, host_vars, db_vars, tool_vars>>

\* The host calls search_flights, concurrently, with valid parameters.
NextCache ==
    \/ \E key \in CacheKeys : SearchFlightsStart(key)
    \/ \E s \in DOMAIN searches, answer \in BackendAnswers : SearchFlightsAnswer(s, answer)

\* ------------------------------------------------------- the specification
\* The tokens a client may send to /authorize_tool: the ones some /chat has
\* stored a proposal under, and one that was never minted.
ClientTokens == {t.session_id : t \in tool_requests} \cup {"forged"}

Option(S) == {{}} \cup {{x} : x \in S}

\* The tool names of Tools that flightsearch.py and flightbooking.py expose.
DeployedCatalogs == <<{"search_flights"}, {"book_flight"}>>

\* Everything but the registry, before the first request.
NoRequests ==
    /\ pending_tool_calls = <<>>
    /\ conversation_history = <<>>
    /\ user_info_storage = <<>>
    /\ uuid_count = 0
    /\ request_count = 0
    /\ requests = <<>>
    /\ responses = {}
    /\ calls = {}
    /\ consumed = {}
    /\ tool_requests = {}
    /\ prompts = {}

\* The host of server.py, GeminiMCPHost(MCP_SERVER_SCRIPTS), after startup.
Init ==
    /\ server_script_paths = <<PathSearch, PathBooking>>
    /\ catalogs = DeployedCatalogs
    /\ sessions = startup(server_script_paths, Len(server_script_paths))
    /\ Started
    /\ NoRequests
    /\ InitDatastore
    /\ InitCache
    /\ InitTools

\* The steps of the host, for the texts the model may answer the planner
\* (plans), write as a final answer (finals) and as an explanation
\* (explanations), and the user infos a client may send (infos).
HostNext(plans, finals, explanations, infos) ==
    \/ \E m \in Messages, u \in Option(UserSessionIds), i \in Option(infos) :
         ChatStart(m, u, i)
    \/ \E t \in ClientTokens, a \in BOOLEAN : AuthorizeUnknown(t, a)
    \/ \E t \in ClientTokens : AuthorizeDeny(t)
    \/ \E t \in ClientTokens : AuthorizeApprove(t)
    \/ \E n \in {"book_flight", UnknownTool}, u \in UserSessionIds :
         ExecuteToolStart(n, EmptyDict, {u}, {})
    \/ \E r \in DOMAIN requests : ChatListTools(r)
    \/ \E r \in DOMAIN requests : ChatRaises(r)
    \/ \E r \in DOMAIN requests, text \in plans : ChatPlan(r, text)
    \/ \E r \in DOMAIN requests : ExecListTools(r)
    \/ \E r \in DOMAIN requests : ExecCallTool(r)
    \/ \E r \in DOMAIN requests : ExecNotFound(r)
    \/ \E r \in DOMAIN requests, text \in finals : ExecCallReturns(r, text)
    \/ \E r \in DOMAIN requests, text \in explanations : ExecCallRaises(r, text)
    \/ \E r \in DOMAIN requests : ExecRaises(r)

\* The planner is answered with prose or with one of two tool proposals, the
\* executor with prose; clients send no user info, and /execute_tool names
\* book_flight or an unknown tool for the browser session.
Next == HostNext({TextProse, TextSearch, TextBook}, {TextProse}, {TextExplain}, {})

Spec == Init /\ [][Next]_vars

\* ------------------------------------------------------------- the router
\* The script path lists a GeminiMCPHost may be constructed with, and any
\* catalogs for the providers they start.
PathLists ==
    {<<PathSearch, PathBooking>>, <<PathSearch, PathOther>>,
     <<PathSearch, PathBooking, PathOther>>}

InitRouter ==
    /\ server_script_paths \in PathLists
    /\ catalogs \in [1..Len(server_script_paths) -> SUBSET Tools]
    /\ sessions = startup(server_script_paths, Len(server_script_paths))
    /\ Started
    /\ NoRequests
    /\ InitDatastore
    /\ InitCache
    /\ InitTools

\* One browser session asks, the model proposes a tool, the user approves.
NextRouter ==
    \/ \E m \in Messages, u \in UserSessionIds : ChatStart(m, {u}, {})
    \/ \E t \in ClientTokens : AuthorizeApprove(t)
    \/ \E r \in DOMAIN requests : ChatListTools(r)
    \/ \E r \in DOMAIN requests, text \in {TextSearch, TextBook} : ChatPlan(r, text)
    \/ \E r \in DOMAIN requests : ExecListTools(r)
    \/ \E r \in DOMAIN requests : ExecCallTool(r)
    \/ \E r \in DOMAIN requests : ExecNotFound(r)
    \/ \E r \in DOMAIN requests : ExecCallReturns(r, TextProse)
    \/ \E r \in DOMAIN requests : ExecCallRaises(r, TextExplain)
    \/ \E r \in DOMAIN requests : ExecRaises(r)

SpecRouter == InitRouter /\ [][NextRouter]_vars

\* ------------------------------------------------------ the context window
\* Entries a session's history may hold before the first request of a run.
MaxEarlier == 7

\* A history of n entries left by earlier direct answers: the user's turns
\* and the assistant's replies alternate.
Earlier(n) ==
    [i \in 1..n |->
        [role |-> IF i % 2 = 1 THEN "user" ELSE "assistant",
         message |-> "turn-" \o ToString(i)]]

\* The deployed host with one browser session that has talked before.
InitWindow ==
    /\ server_script_paths = <<PathSearch, PathBooking>>
    /\ catalogs = DeployedCatalogs
    /\ sessions = startup(server_script_paths, Len(server_script_paths))
    /\ Started
    /\ \E n \in 0..MaxEarlier :
         conversation_history = [us \in UserSessionIds |-> Earlier(n)]
    /\ pending_tool_calls = <<>>
    /\ user_info_storage = <<>>
    /\ uuid_count = 0
    /\ request_count = 0
    /\ requests = <<>>
    /\ responses = {}
    /\ calls = {}
    /\ consumed = {}
    /\ tool_requests = {}
    /\ prompts = {}
    /\ InitDatastore
    /\ InitCache
    /\ InitTools

\* The browser session asks; the planner answers or proposes.
NextWindow ==
    \/ \E m \in Messages, u \in UserSessionIds : ChatStart(m, {u}, {})
    \/ \E r \in DOMAIN requests : ChatListTools(r)
    \/ \E r \in DOMAIN requests : ChatRaises(r)
    \/ \E r \in DOMAIN requests, text \in {TextProse, TextSearch} : ChatPlan(r, text)

SpecWindow == InitWindow /\ [][NextWindow]_vars

\* ------------------------------------------------------------ the identity
\* Clients log in: a /chat request may carry either identity, or none.
\* The model answers or proposes search_flights, the user resolves the
\* proposal, and /execute_tool runs book_flight for the browser session.
NextIdentity ==
    \/ \E m \in Messages, u \in UserSessionIds, i \in Option(UserInfos) :
         ChatStart(m, {u}, i)
    \/ \E t \in ClientTokens : AuthorizeDeny(t)
    \/ \E t \in ClientTokens : AuthorizeApprove(t)
    \/ \E u \in UserSessionIds : ExecuteToolStart("book_flight", EmptyDict, {u}, {})
    \/ \E r \in DOMAIN requests : ChatListTools(r)
    \/ \E r \in DOMAIN requests, text \in {TextProse, TextSearch} : ChatPlan(r, text)
    \/ \E r \in DOMAIN requests : ExecListTools(r)
    \/ \E r \in DOMAIN requests : ExecCallTool(r)
    \/ \E r \in DOMAIN requests : ExecCallReturns(r, TextProse)

SpecIdentity == Init /\ [][NextIdentity]_vars

\* -------------------------------------------------------------- the planner
\* Any session asks, the model answers anything, the user may deny.
NextPlanner ==
    \/ \E m \in Messages, u \in Option(UserSessionIds) : ChatStart(m, u, {})
    \/ \E t \in ClientTokens : AuthorizeDeny(t)
    \/ \E r \in DOMAIN requests : ChatListTools(r)
    \/ \E r \in DOMAIN requests : ChatRaises(r)
    \/ \E r \in DOMAIN requests, text \in ModelTexts : ChatPlan(r, text)

SpecPlanner == Init /\ [][NextPlanner]_vars

\* ------------------------------------------------------------- the executor
\* Proposals are approved and run; the second model call answers with prose
\* or with a JSON object that names a tool.
NextExecutor ==
    \/ \E m \in Messages, u \in UserSessionIds : ChatStart(m, {u}, {})
    \/ \E t \in ClientTokens : AuthorizeApprove(t)
    \/ \E r \in DOMAIN requests : ChatListTools(r)
    \/ \E r \in DOMAIN requests, text \in {TextSearch, TextBook} : ChatPlan(r, text)
    \/ \E r \in DOMAIN requests : ExecListTools(r)
    \/ \E r \in DOMAIN requests : ExecCallTool(r)
    \/ \E r \in DOMAIN requests, text \in {TextProse, TextSearch, TextBook} :
         ExecCallReturns(r, text)

SpecExecutor == Init /\ [][NextExecutor]_vars

\* ---------------------------------------------------------- the lifecycles
\* The message of the n-th request: every request asks something else.
Query(n) == "query-" \o ToString(n)

\* One browser session asks, is answered or resolves the proposal.
NextOrder ==
    \/ \E u \in UserSessionIds : ChatStart(Query(NewId), {u}, {})
    \/ \E t \in ClientTokens : AuthorizeDeny(t)
    \/ \E t \in ClientTokens : AuthorizeApprove(t)
    \/ \E r \in DOMAIN requests : ChatListTools(r)
    \/ \E r \in DOMAIN requests, text \in {TextProse, TextBook} : ChatPlan(r, text)
    \/ \E r \in DOMAIN requests : ExecListTools(r)
    \/ \E r \in DOMAIN requests : ExecCallTool(r)
    \/ \E r \in DOMAIN requests : ExecCallReturns(r, TextProse)
    \/ \E r \in DOMAIN requests : ExecCallRaises(r, TextExplain)

SpecOrder == Init /\ [][NextOrder]_vars

\* -------------------------------------------- the datastore and the cache
SpecDatastore == Init /\ [][NextDatastore]_vars

SpecCache == Init /\ [][NextCache]_vars

SpecHolds == Init /\ [][NextHolds]_vars

\* ------------------------------------------------------------- the startup
\* The catalog each provider of a path list exposes.
CatalogsOf(paths) ==
    [i \in 1..Len(paths) |->
        IF stem(paths[i]) = "flightsearch" THEN {"search_flights"}
        ELSE {"book_flight"}]

\* The host as GeminiMCPHost(server_script_paths) constructs it, before
\* on_startup.
InitStartup ==
    /\ server_script_paths \in PathLists
    /\ catalogs = CatalogsOf(server_script_paths)
    /\ sessions = <<>>
    /\ exit_stack = <<>>
    /\ starting = [pc |-> "spawn", idx |-> 1]
    /\ released = <<>>
    /\ NoRequests
    /\ InitDatastore
    /\ InitCache
    /\ InitTools

\* on_startup runs; once it has returned the application serves /chat
\* requests until on_shutdown.
NextStartup ==
    \/ StartupSpawn
    \/ StartupSpawnFails
    \/ StartupHandshake
    \/ StartupHandshakeFails
    \/ StartupListTools
    \/ StartupListToolsFails
    \/ Shutdown
    \/ ShutdownExit
    \/ ShutdownReturns
    \/ \E m \in Messages, u \in UserSessionIds :
         starting.pc = "done" /\ ChatStart(m, {u}, {})
    \/ \E r \in DOMAIN requests : ChatListTools(r)
    \/ \E r \in DOMAIN requests : ChatRaises(r)
    \/ \E r \in DOMAIN requests : ChatPlan(r, TextProse)

SpecStartup == InitStartup /\ [][NextStartup]_vars

\* The event loop runs aclose() to its end once on_shutdown has called it.
SpecShutdown ==
    /\ InitStartup
    /\ [][NextStartup]_vars
    /\ WF_vars(ShutdownExit)
    /\ WF_vars(ShutdownReturns)

\* ---------------------------------------------------------------- the gate
PoppedTokens == {a.session_id : a \in consumed}

\* The handling of one /authorize_tool request that carries token t.
AuthorizeArrives(t) ==
    \/ AuthorizeUnknown(t, TRUE)
    \/ AuthorizeUnknown(t, FALSE)
    \/ AuthorizeDeny(t)
    \/ AuthorizeApprove(t)

\* The user session of the /chat request that returned token t.
ProposingSession(t) ==
    (CHOOSE p \in tool_requests : p.session_id = t).user_session_id

\* C1: every session.call_tool the host has made was preceded by an
\* /authorize_tool request with authorized=true that popped a pending
\* proposal with the same tool name and the same arguments.
C1_EveryCallApproved ==
    \A c \in calls :
        \E a \in consumed :
            a.authorized /\ a.tool_name = c.tool_name /\ a.tool_args = c.tool_args

\* C2: once /authorize_tool has popped token t (so also once it has answered
\* 200 for t), every later /authorize_tool with t answers 404, starts no
\* executor, makes no call_tool and leaves every history as it is.
C2_SecondResolveFails ==
    [][\A t \in ClientTokens :
         (t \in PoppedTokens /\ AuthorizeArrives(t)) =>
            /\ \E resp \in responses' :
                 resp.kind = "authorize_tool" /\ resp.session_id = t /\ resp.status = 404
            /\ \A resp \in responses' \ responses :
                 resp.session_id = t /\ resp.status = 404
            /\ consumed' = consumed
            /\ calls' = calls
            /\ requests' = requests
            /\ conversation_history' = conversation_history]_vars

C2_Witness ==
    \E ok, ko \in responses :
        /\ ok.kind = "authorize_tool" /\ ok.status = 200
        /\ ko.kind = "authorize_tool" /\ ko.status = 404
        /\ ok.session_id = ko.session_id

\* C3: whatever the interleaving, a token is popped by at most one
\* /authorize_tool request and the requests that carry it make at most one
\* call_tool between them.
C3_ConsumedOnce ==
    \A t \in ClientTokens :
        /\ Cardinality({a \in consumed : a.session_id = t}) <= 1
        /\ Cardinality({c \in calls :
                          \E a \in consumed : a.req = c.req /\ a.session_id = t}) <= 1

\* An approved request is suspended in call_tool and a second request with
\* its token has been answered 404.
C3_Witness ==
    \E r \in DOMAIN requests :
        /\ requests[r].kind = "authorize_tool" /\ requests[r].pc = "exec_call"
        /\ \E resp \in responses :
             /\ resp.kind = "authorize_tool" /\ resp.status = 404
             /\ resp.session_id = requests[r].session_id

\* C4: the tool name and arguments an approved /authorize_tool hands to
\* execute_tool_call, and those of the call_tool it makes, are the ones /chat
\* returned in tool_request under the same token.
C4_RoundTrip ==
    \A a \in consumed :
        a.authorized =>
            \E p \in tool_requests :
                /\ p.session_id = a.session_id
                /\ p.tool_name = a.tool_name /\ p.tool_args = a.tool_args
                /\ \A c \in calls :
                     c.req = a.req =>
                        c.tool_name = p.tool_name /\ c.tool_args = p.tool_args

C4_Witness ==
    \E a \in consumed, c \in calls :
        a.authorized /\ c.req = a.req /\ c.tool_args # EmptyDict

\* C5: a denial enters no executor, makes no call_tool and appends exactly
\* one assistant entry, the denial, to the history of the session whose /chat
\* made the proposal.
C5_DenialShortCircuits ==
    [][\A t \in DOMAIN pending_tool_calls :
         AuthorizeDeny(t) =>
            LET us == ProposingSession(t)
            IN  /\ calls' = calls
                /\ requests' = requests
                /\ us \in DOMAIN conversation_history
                /\ conversation_history' =
                     [conversation_history EXCEPT
                        ![us] = Append(@, [role |-> "assistant",
                                           message |-> DeniedReply])]]_vars

\* A proposal was denied while another session has a history too.
C5_Witness ==
    \E a \in consumed :
        /\ ~a.authorized
        /\ \E us \in DOMAIN conversation_history : us # ProposingSession(a.session_id)

\* The request tokens minted so far are pairwise distinct.
TokensDistinct ==
    /\ \A p, q \in tool_requests : p.session_id = q.session_id => p = q
    /\ \A r \in DOMAIN requests :
         requests[r].kind = "chat" =>
            /\ \A p \in tool_requests : p.session_id # requests[r].session_id
            /\ \A q \in DOMAIN requests \ {r} :
                 requests[q].kind = "chat" =>
                    requests[q].session_id # requests[r].session_id

Connected == {sessions[i].session : i \in 1..Len(sessions)}
Listing(tool_name) == {p \in Connected : tool_name \in catalogs[p]}

\* The replies /authorize_tool has returned for the token of consumption a.
RepliesTo(a) ==
    {resp \in responses :
        /\ resp.kind = "authorize_tool" /\ resp.session_id = a.session_id
        /\ resp.status = 200}

C8_UnknownToolNotFound ==
    \A a \in consumed :
        (a.authorized /\ Listing(a.tool_name) = {}) =>
            /\ \A c \in calls : c.req # a.req
            /\ \A resp \in RepliesTo(a) : resp.outcome = "not_found"

\* An approved execution searched two sessions and replied without a call.
C8_Witness ==
    \E a \in consumed :
        /\ a.authorized /\ Listing(a.tool_name) = {}
        /\ RepliesTo(a) # {}
        /\ Len(sessions) >= 2

\* C9: the reply of an approved execution whose tool no provider lists is
\* the output of a model completion call.
C9_NotFoundExplainedByModel ==
    \A resp \in responses :
        (resp.kind = "authorize_tool" /\ resp.outcome = "not_found") =>
            resp.via = "model"

\* C10: when two or more connected providers list the approved tool, the
\* call_tool goes to the one that startup registered first (providers are
\* numbered in startup order).
C10_FirstRegisteredWins ==
    \A a \in consumed, c \in calls :
        (a.authorized /\ c.req = a.req /\ Cardinality(Listing(c.tool_name)) >= 2) =>
            \A p \in Listing(c.tool_name) : c.session <= p

\* ------------------------------------------------------------- the executor
AssistantEntry(message) == [role |-> "assistant", message |-> message]
UserEntry(message) == [role |-> "user", message |-> message]

\* C11: when call_tool raises in an approved execution, /authorize_tool
\* answers 200 with the output of the model call that explains the error,
\* appends that output as one assistant entry to the history of the proposing
\* session, and makes no further call_tool.
C11_CallFailureExplained ==
    [][\A r \in DOMAIN requests, text \in ModelTexts :
         (requests[r].kind = "authorize_tool" /\ ExecCallRaises(r, text)) =>
            LET t == requests[r].session_id
                us == ProposingSession(t)
            IN  /\ \E resp \in responses' :
                     /\ resp.kind = "authorize_tool" /\ resp.session_id = t
                     /\ resp.status = 200 /\ resp.reply = text /\ resp.via = "model"
                /\ \A resp \in responses' :
                     (resp.kind = "authorize_tool" /\ resp.session_id = t) =>
                        resp.outcome \notin {"raised", "error"}
                /\ conversation_history' =
                     [conversation_history EXCEPT ![us] = Append(@, AssistantEntry(text))]
                /\ calls' = calls]_vars

\* An approved call_tool failed and its explanation is in the history.
C11_Witness ==
    \E resp \in responses, c \in calls, a \in consumed :
        /\ resp.kind = "authorize_tool" /\ resp.outcome = "tool_error"
        /\ a.session_id = resp.session_id /\ a.authorized /\ c.req = a.req
        /\ \E us \in DOMAIN conversation_history :
             \E i \in 1..Len(conversation_history[us]) :
                conversation_history[us][i] = AssistantEntry(resp.reply)

\* C12: no request is answered with an exception: every response of /chat,
\* /authorize_tool and /execute_tool to a request in which a provider
\* operation or a model call failed is a natural-language reply.
C12_FailuresNarrated ==
    \A resp \in responses :
        resp.kind \in {"chat", "authorize_tool", "execute_tool"} =>
            resp.outcome \notin {"raised", "error"}

\* C13: no call_tool is made by a /chat request, and a /chat request is
\* never inside the executor: it only lists catalogs and calls the model.
C13_PlannerOnlyProposes ==
    /\ \A c \in calls : c.kind # "chat"
    /\ \A r \in DOMAIN requests :
         requests[r].kind = "chat" => requests[r].pc = "plan_list"

\* The planner has proposed a tool that is still pending while call_tool
\* was made for other requests.
C13_Witness ==
    \E resp \in responses, p \in prompts :
        /\ resp.kind = "chat" /\ resp.outcome = "proposal"
        /\ p.session_id = resp.session_id
        /\ resp.session_id \in DOMAIN pending_tool_calls
        /\ calls # {}

\* ------------------------------------------------------------ the histories
\* C14: every history keeps the entries it has, in place, and only grows;
\* and a /chat that completes appends its user entry whether or not the
\* history already holds an entry with that text.
C14_AppendNeverDeduplicates ==
    [][/\ \A us \in DOMAIN conversation_history :
            /\ us \in DOMAIN conversation_history'
            /\ Len(conversation_history'[us]) >= Len(conversation_history[us])
            /\ SubSeq(conversation_history'[us], 1, Len(conversation_history[us]))
                 = conversation_history[us]
       /\ \A r \in DOMAIN requests, text \in ModelTexts :
            ChatPlan(r, text) =>
               LET us == requests[r].user_session_id
                   n == Len(conversation_history[us])
               IN  /\ Len(conversation_history'[us]) > n
                   /\ conversation_history'[us][n + 1] = UserEntry(requests[r].query)]_vars

\* One history holds the same user entry twice.
C14_Witness ==
    \E us \in DOMAIN conversation_history :
        \E i, j \in 1..Len(conversation_history[us]) :
            /\ i < j
            /\ conversation_history[us][i].role = "user"
            /\ conversation_history[us][i] = conversation_history[us][j]

\* C15: the context the planner gives the model is the last min(6, n) entries
\* of the n the session's history held before the query was appended, oldest
\* first, and the history keeps those n entries in place.
C15_WindowIsLastSix ==
    [][\A r \in DOMAIN requests, text \in ModelTexts :
         ChatPlan(r, text) =>
            LET us == requests[r].user_session_id
                h == conversation_history[us]
                n == Len(h)
                k == IF n < 6 THEN n ELSE 6
            IN  /\ \E p \in prompts' :
                     /\ p.session_id = requests[r].session_id
                     /\ Len(p.context) = k
                     /\ \A i \in 1..k : p.context[i] = h[n - k + i]
                /\ \A p \in prompts' :
                     p.session_id = requests[r].session_id => Len(p.context) = k
                /\ SubSeq(conversation_history'[us], 1, n) = h
                /\ conversation_history'[us][n + 1] = UserEntry(requests[r].query)]_vars

\* A planner was given six entries of a history that held more.
C15_Witness ==
    \E p \in prompts, us \in DOMAIN conversation_history :
        /\ Len(p.context) = 6
        /\ Len(conversation_history[us]) > 8
        /\ p.context[1] = conversation_history[us][3]
        /\ p.context[6] = conversation_history[us][8]

\* What a response of /chat or /authorize_tool adds to the history.
Added(resp, query) ==
    IF resp.kind = "chat"
    THEN IF resp.outcome = "proposal" THEN <<UserEntry(query)>>
         ELSE <<UserEntry(query), AssistantEntry(resp.reply)>>
    ELSE <<AssistantEntry(resp.reply)>>

\* C16: a /chat answered directly appends the user entry then the reply, a
\* /chat that proposes appends the user entry alone, and an /authorize_tool
\* answered 200 (approved or denied) appends its reply as one assistant entry
\* to the history of the proposing session; no other history changes.
C16_EveryTransitionAppends ==
    [][/\ \A r \in DOMAIN requests \ DOMAIN requests' :
            \A resp \in responses' \ responses :
               (resp.status = 200 /\ resp.kind \in {"chat", "authorize_tool"}) =>
                  LET us == IF resp.kind = "chat" THEN requests[r].user_session_id
                            ELSE ProposingSession(resp.session_id)
                  IN  conversation_history' =
                        [conversation_history EXCEPT
                           ![us] = @ \o Added(resp, requests[r].query)]
       /\ \A t \in DOMAIN pending_tool_calls :
            AuthorizeDeny(t) =>
               /\ \E resp \in responses' \ responses :
                    resp.status = 200 /\ resp.reply = DeniedReply
               /\ conversation_history' =
                    [conversation_history EXCEPT
                       ![ProposingSession(t)] = Append(@, AssistantEntry(DeniedReply))]]_vars

\* One session was given a direct answer and a proposal, and the approved
\* proposal was executed.
C16_Witness ==
    \E a, b, d \in responses :
        /\ a.kind = "chat" /\ a.outcome = "answer"
        /\ b.kind = "chat" /\ b.outcome = "proposal"
        /\ d.kind = "authorize_tool" /\ d.outcome = "tool_result"
        /\ d.session_id = b.session_id
        /\ \E us \in DOMAIN conversation_history :
             Len(conversation_history[us]) = 4

\* The conversation and the identity the pending entry of token t holds.
Held(t) ==
    [conversation |-> conversation_history[pending_tool_calls[t].conversation_history],
     user_info |-> pending_tool_calls[t].user_info]

\* C17: what a pending entry holds as conversation and identity does not
\* change while it is pending.
C17_PendingHoldsSnapshot ==
    [][\A t \in DOMAIN pending_tool_calls :
         t \in DOMAIN pending_tool_calls' => Held(t)' = Held(t)]_vars

\* ------------------------------------------------------------- the identity
\* C18: a stored identity is never removed; a /chat request without identity
\* on a session that has one takes the stored identity as its user_info, and
\* every planner call is given the user_info of its request.
C18_IdentityRetained ==
    [][/\ \A us \in DOMAIN user_info_storage : us \in DOMAIN user_info_storage'
       /\ \A m \in Messages, us \in DOMAIN user_info_storage :
            ChatStart(m, {us}, {}) =>
               \E r \in DOMAIN requests' \ DOMAIN requests :
                  requests'[r].user_info = {user_info_storage[us]}
       /\ \A r \in DOMAIN requests, text \in ModelTexts :
            ChatPlan(r, text) =>
               /\ \E p \in prompts' : p.session_id = requests[r].session_id
               /\ \A p \in prompts' :
                    p.session_id = requests[r].session_id =>
                       p.user_info = requests[r].user_info]_vars

\* A request that carried no identity planned with a stored one.
C18_Witness ==
    \E p \in prompts :
        /\ p.supplied = {} /\ p.user_info # {}
        /\ \E us \in DOMAIN user_info_storage : p.user_info = {user_info_storage[us]}

\* C19: the identity stored for a session is never replaced.
C19_IdentityAttachedOnce ==
    [][\A us \in DOMAIN user_info_storage :
         /\ us \in DOMAIN user_info_storage'
         /\ user_info_storage'[us] = user_info_storage[us]]_vars

\* -------------------------------------------------------------- the startup
\* C20: when startup has failed at the k-th provider, no context entered for
\* one of the providers 1..k-1 is still on the exit stack.
C20_FailedStartupRollsBack ==
    starting.pc = "failed" =>
        \A i \in 1..Len(exit_stack) : exit_stack[i].provider >= starting.idx

\* ------------------------------------------------------------- the shutdown
RECURSIVE Reverse(_)
Reverse(seq) ==
    IF seq = <<>> THEN <<>> ELSE Append(Reverse(Tail(seq)), Head(seq))

\* The contexts exited so far, put back on the exit stack in reverse exit
\* order, are the contexts startup entered, in the order it entered them.
ReleasedInReverse ==
    LET entered == exit_stack \o Reverse(released)
    IN  /\ Len(entered) <= 2 * Len(server_script_paths)
        /\ entered = SubSeq(acquired(Len(server_script_paths)), 1, Len(entered))

\* C21: shutdown exits the contexts startup entered in the reverse of the
\* order they were entered, each once, and once called it returns with the
\* exit stack empty, also after a startup that failed part-way.
C21_ShutdownReleasesInReverse ==
    /\ []ReleasedInReverse
    /\ [](starting.pc = "stopped" => exit_stack = <<>>)
    /\ (starting.pc = "closing") ~> (starting.pc = "stopped")

\* Shutdown has returned after a startup that failed before its last
\* provider, having exited the session and the transport of a provider.
C21_Witness ==
    /\ starting.pc = "stopped"
    /\ starting.idx < Len(server_script_paths)
    /\ Len(released) >= 2
    /\ released[1].kind = "session" /\ released[2].kind = "stdio"

\* ------------------------------------------------------- the pending set
\* C22: a pending entry leaves the pending set only in the step in which
\* /authorize_tool pops its own token; across every other step it stays, with
\* what it held.
C22_PendingNeverExpires ==
    [][\A t \in DOMAIN pending_tool_calls :
         \/ AuthorizeDeny(t)
         \/ AuthorizeApprove(t)
         \/ /\ t \in DOMAIN pending_tool_calls'
            /\ pending_tool_calls'[t] = pending_tool_calls[t]]_vars

\* A proposal is still pending after a later /chat was answered and an
\* /execute_tool has run.
C22_Witness ==
    \E t \in DOMAIN pending_tool_calls, a, b \in responses :
        /\ a.kind = "chat" /\ a.session_id # t
        /\ b.kind = "execute_tool" /\ b.outcome = "tool_result"
        /\ request_count = MaxRequests

\* C23: the token under which /chat stores a proposal is not pending at that
\* moment, so the store keeps every pending entry; and the tokens of the
\* /chat requests in flight differ from each other and from every pending one.
C23_FreshTokensNeverCollide ==
    /\ [](\A r, q \in DOMAIN requests :
            (requests[r].kind = "chat" /\ requests[q].kind = "chat" /\ r # q) =>
               requests[r].session_id # requests[q].session_id)
    /\ [](\A r \in DOMAIN requests :
            requests[r].kind = "chat" =>
               requests[r].session_id \notin DOMAIN pending_tool_calls)
    /\ [][\A r \in DOMAIN requests, text \in ModelTexts :
            ChatPlan(r, text) =>
               \A t \in DOMAIN pending_tool_calls :
                  /\ t \in DOMAIN pending_tool_calls'
                  /\ pending_tool_calls'[t] = pending_tool_calls[t]]_vars

\* Three /chat requests that were in flight together have each a proposal
\* pending.
C23_Witness ==
    /\ Cardinality(DOMAIN pending_tool_calls) = 3
    /\ \E p \in prompts : p.context = <<>> /\ p.session_id = "uuid-3"
    /\ \E p \in prompts : p.context = <<>> /\ p.session_id = "uuid-1"

\* The texts that hold a JSON object with a "tool" key, bare or fenced.
ToolTexts == {TextSearch, TextBook}

C25_FinalAnswerVerbatim ==
    [][\A r \in DOMAIN requests, text \in ModelTexts :
         (requests[r].kind = "authorize_tool" /\ ExecCallReturns(r, text)) =>
            /\ \E resp \in responses' :
                 /\ resp.kind = "authorize_tool"
                 /\ resp.session_id = requests[r].session_id
                 /\ resp.status = 200 /\ resp.reply = text
            /\ r \notin DOMAIN requests'
            /\ pending_tool_calls' = pending_tool_calls
            /\ tool_requests' = tool_requests
            /\ calls' = calls]_vars

\* An approved execution replied a JSON object that names a tool.
C25_Witness ==
    \E resp \in responses :
        /\ resp.kind = "authorize_tool" /\ resp.outcome = "tool_result"
        /\ resp.reply \in ToolTexts

\* C30: the assistant entry that answers a request is appended at the end of
\* a history that already holds the request's user entry: right behind it for
\* a direct answer, anywhere behind it for a denial or an executed result.
C30_UserEntryBeforeAnswer ==
    [][/\ \A r \in DOMAIN requests \ DOMAIN requests' :
            \A resp \in responses' \ responses :
               resp.status = 200 =>
                  LET us == requests[r].user_session_id
                      h == conversation_history[us]
                      g == conversation_history'[us]
                      q == UserEntry(requests[r].query)
                  IN  CASE resp.outcome = "proposal" -> g = Append(h, q)
                        [] resp.kind = "chat" ->
                             g = h \o <<q, AssistantEntry(resp.reply)>>
                        [] OTHER ->
                             /\ g = Append(h, AssistantEntry(resp.reply))
                             /\ \E i \in 1..Len(h) : h[i] = q
       /\ \A t \in DOMAIN pending_tool_calls :
            AuthorizeDeny(t) =>
               LET us == pending_tool_calls[t].user_session_id
                   h == conversation_history[us]
               IN  /\ conversation_history'[us] = Append(h, AssistantEntry(DeniedReply))
                   /\ \E i \in 1..Len(h) : h[i] = UserEntry(pending_tool_calls[t].query)]_vars

\* The user entry of a second request stands between the first request's
\* user entry and the reply of its approved execution.
C30_Witness ==
    \E us \in DOMAIN conversation_history :
        /\ Len(conversation_history[us]) >= 3
        /\ conversation_history[us][1] = UserEntry(Query(1))
        /\ conversation_history[us][2] = UserEntry(Query(2))
        /\ conversation_history[us][3] = AssistantEntry(TextProse)
        /\ \E a \in consumed : a.authorized /\ a.session_id = "uuid-1"

\* ------------------------------------------------------------ the datastore
\* C26: the seat counter of no flight is negative.
C26_SeatsNeverNegative ==
    \A f \in DOMAIN flights : flights[f] >= 0

\* The seats of the booking rows of flight f.
RECURSIVE SeatsOf(_, _)
SeatsOf(f, ids) ==
    IF ids = {} THEN 0
    ELSE LET id == CHOOSE x \in ids : TRUE
         IN  (IF bookings[id].flight_id = f THEN bookings[id].seats ELSE 0)
             + SeatsOf(f, ids \ {id})

\* C27: for every flight, the seat counter plus the seats of its booking rows
\* is the capacity the flight was seeded with.
C27_SeatsConserved ==
    \A f \in DOMAIN flights :
        flights[f] + SeatsOf(f, DOMAIN bookings) = Capacity

\* ---------------------------------------------------------------- the cache
\* C28: the cache never holds more than MAX_CACHE_SIZE entries, and no key
\* twice.
C28_CacheBounded ==
    /\ Len(flight_cache) <= MAX_CACHE_SIZE
    /\ Cardinality(keys_of(flight_cache)) = Len(flight_cache)

\* The cache is full after an eviction while searches are awaiting the
\* backend.
C28_Witness ==
    /\ Len(flight_cache) = MAX_CACHE_SIZE
    /\ cache_stats.cache_evictions >= 1
    /\ searches # <<>>

\* When a key was last used, and the cached key used the longest ago.
LastUse(key) == CHOOSE i \in 1..Len(uses) :
                   uses[i] = key /\ \A j \in (i + 1)..Len(uses) : uses[j] # key
LeastRecentlyUsed ==
    CHOOSE k \in keys_of(flight_cache) :
        \A other \in keys_of(flight_cache) : LastUse(k) <= LastUse(other)

\* C29: when a new key is added to a full cache, the cached key whose last
\* use (insertion or hit) is the oldest leaves, no other key leaves, the new
\* key enters and cache_evictions grows by one; no other step evicts.
C29_EvictsLeastRecentlyUsed ==
    [][IF \E s \in DOMAIN searches \ DOMAIN searches' :
            /\ flight_cache' # flight_cache
            /\ searches[s] \notin keys_of(flight_cache)
            /\ Len(flight_cache) = MAX_CACHE_SIZE
       THEN LET s == CHOOSE x \in DOMAIN searches \ DOMAIN searches' : TRUE
            IN  /\ keys_of(flight_cache') =
                     (keys_of(flight_cache) \ {LeastRecentlyUsed}) \cup {searches[s]}
                /\ Len(flight_cache') = MAX_CACHE_SIZE
                /\ cache_stats'.cache_evictions = cache_stats.cache_evictions + 1
       ELSE /\ keys_of(flight_cache) \subseteq keys_of(flight_cache')
            /\ cache_stats'.cache_evictions = cache_stats.cache_evictions]_vars

\* The key inserted first was hit later and is still cached after an
\* eviction.
C29_Witness ==
    /\ cache_stats.cache_evictions >= 1
    /\ cache_stats.cache_hits >= 1
    /\ uses[1] \in keys_of(flight_cache)
    /\ \E i \in 2..Len(uses) : uses[i] = uses[1]

\* ------------------------------------------------------------- the registry
\* C31: after a successful startup the registry holds one connection for
\* every listed provider, each of them under a name of its own.
C31_OneConnectionPerProvider ==
    /\ Len(sessions) = Len(server_script_paths)
    /\ \A p \in 1..Len(server_script_paths) :
         \E i \in 1..Len(sessions) : sessions[i].session = p

\* --------------------------------------------------- approval and failure
\* An approving authorize_tool left its handler with an exception.
ApprovalRaised(resp) == resp.kind = "authorize_tool" /\ resp.status = 500

\* C32: when the executor raises under an approving authorize_tool, the
\* token was removed from the pending set before, the step appends nothing
\* to any history, and the token is pending in no later state.
C32_ApprovalConsumesBeforeExecution ==
    /\ [][\A resp \in responses' \ responses :
            ApprovalRaised(resp) =>
              /\ resp.session_id \notin DOMAIN pending_tool_calls
              /\ pending_tool_calls' = pending_tool_calls
              /\ conversation_history' = conversation_history
              /\ \E a \in consumed : a.session_id = resp.session_id /\ a.authorized]_vars
    /\ [](\A resp \in responses :
            ApprovalRaised(resp) => resp.session_id \notin DOMAIN pending_tool_calls)

\* An approved request has raised while another proposal is pending.
C32_Witness ==
    /\ \E resp \in responses : ApprovalRaised(resp)
    /\ pending_tool_calls # <<>>

\* ------------------------------------------------- failures of the datastore
\* The flight of a request is missing or has fewer seats than requested.
Unavailable(flight_id, seats) ==
    flight_id \notin DOMAIN flights \/ flights[flight_id] < seats

\* C33: a create_booking for a missing flight or for more seats than are
\* available raises ValueError and goes no further, and a create_booking
\* that raises ValueError leaves the bookings and every seat counter as they
\* were.
C33_FailedCreateChangesNothing ==
    [][/\ \A r \in db_returns' \ db_returns :
            (r.op = "create_booking" /\ r.result = "ValueError") =>
              /\ Unavailable(r.flight_id, r.seats)
              /\ flights' = flights
              /\ bookings' = bookings
       /\ \A c \in DOMAIN db_calls' \ DOMAIN db_calls :
            db_calls'[c].op = "create_booking" =>
              ~Unavailable(db_calls'[c].flight_id, db_calls'[c].seats)]_vars

\* A create_booking for a flight that exists has raised ValueError, for want
\* of seats, while the flight has a booking.
C33_Witness ==
    /\ \E r \in db_returns : r.result = "ValueError" /\ r.flight_id = FlightId
    /\ \E r \in db_returns : r.result = "ValueError" /\ r.flight_id = NoFlight
    /\ bookings # <<>>

\* C34: a delete_booking that finds no row returns False and changes no
\* booking and no seat counter; and once a delete_booking has returned True
\* for an id, the row is gone, so that a later delete_booking of the id finds
\* no row.
C34_DeleteOfMissingBooking ==
    /\ [][\A r \in db_returns' \ db_returns :
            (r.op = "delete_booking" /\ db_count' # db_count) =>
              /\ r.booking_id \notin DOMAIN bookings
              /\ r.result = "False"
              /\ flights' = flights
              /\ bookings' = bookings]_vars
    /\ [](\A r \in db_returns :
            (r.op = "delete_booking" /\ r.result = "True") =>
              r.booking_id \notin DOMAIN bookings)

\* A booking was deleted, and a later delete_booking of it returned False.
C34_Witness ==
    \E first, second \in db_returns :
        /\ first.op = "delete_booking" /\ first.result = "True"
        /\ second.op = "delete_booking" /\ second.result = "False"
        /\ second.booking_id = first.booking_id
        /\ second.call > first.call

\* ------------------------------------------------------ what the cache holds
\* The value the cache holds for a key.
cached_value(key) == flight_cache[index_of(flight_cache, key)].value

\* C35: a search that the backend fails leaves the cache as it was and no
\* cached value is the reply to a failure; a search that makes no backend
\* call is for a cached key and returns the cached value, and a search that
\* calls the backend is for a key that is not cached.
C35_CachesOnlyAnswers ==
    /\ [][/\ \A r \in search_returns' \ search_returns :
               (r.via = "backend" /\ r.result = ResultOf("None")) =>
                 flight_cache' = flight_cache
          /\ search_count' # search_count =>
               IF searches' = searches
               THEN /\ Len(uses') = Len(uses) + 1
                    /\ LET key == uses'[Len(uses')]
                       IN  /\ key \in keys_of(flight_cache)
                           /\ SearchReturn(key, cached_value(key), "cache")
                                \in search_returns'
               ELSE /\ search_returns' = search_returns
                    /\ \E n \in DOMAIN searches' \ DOMAIN searches :
                         searches'[n] \notin keys_of(flight_cache)]_vars
    /\ [](\A i \in 1..Len(flight_cache) : flight_cache[i].value # ResultOf("None"))

\* Of three searches for one key, the backend failed one and answered one,
\* and one was served the answer from the cache.
C35_Witness ==
    /\ search_count = 3 /\ cache_stats.cache_misses = 2 /\ searches = <<>>
    /\ \E failed, asked, hit \in search_returns :
        /\ failed.via = "backend" /\ failed.result = ResultOf("None")
        /\ asked.via = "backend" /\ asked.result # ResultOf("None")
        /\ hit.via = "cache" /\ hit.result = asked.result
        /\ failed.key = asked.key /\ asked.key = hit.key

\* ---------------------------------------------------------------- the holds
\* The replies of confirm_held_booking that are error messages for an id
\* that is malformed, unknown or not on hold.
Refusals == {"invalid_id", "not_found", "not_on_hold"}

\* C36: a confirm_held_booking that looks up a booking which does not exist
\* or whose status is not HELD replies with an error message at once, and a
\* confirm_held_booking that replies with such an error message changes no
\* booking and no seat counter.
C36_ConfirmOnlyHeld ==
    [][/\ \A r \in tool_returns' \ tool_returns :
            (r.tool = "confirm_held_booking" /\ r.result \in Refusals) =>
              bookings' = bookings /\ flights' = flights
       /\ \A c \in DOMAIN tool_calls :
            (/\ tool_calls[c].tool = "confirm_held_booking"
             /\ tool_calls[c].pc = "get"
             /\ tool_calls' # tool_calls
             /\ (c \in DOMAIN tool_calls' => tool_calls'[c].pc # "get")
             /\ \/ tool_calls[c].booking_id \notin DOMAIN bookings
                \/ bookings[tool_calls[c].booking_id].status # "HELD") =>
              /\ c \notin DOMAIN tool_calls'
              /\ bookings' = bookings /\ flights' = flights
              /\ \E r \in tool_returns' :
                   /\ r.tool = "confirm_held_booking"
                   /\ r.booking_id = tool_calls[c].booking_id
                   /\ r.result \in {"not_found", "not_on_hold"}]_vars

\* confirm_held_booking has refused a CONFIRMED booking and an id that no
\* booking has.
C36_Witness ==
    /\ \E r \in tool_returns :
         /\ r.tool = "confirm_held_booking" /\ r.result = "not_on_hold"
         /\ r.booking_id \in DOMAIN bookings
         /\ bookings[r.booking_id].status = "CONFIRMED"
    /\ \E r \in tool_returns :
         /\ r.tool = "confirm_held_booking" /\ r.result = "not_found"
         /\ r.booking_id = UnknownBookingId

\* C37: when a confirm_held_booking that was called on a HELD booking with an
\* expired hold returns, and no client has set a status meanwhile, the
\* booking is deleted, its seats are back, and its status was not set to
\* CONFIRMED.
C37_ExpiredHoldNeverConfirmed ==
    [][\A r \in tool_returns' \ tool_returns :
         (/\ r.tool = "confirm_held_booking" /\ r.held_expired
          /\ \A d \in db_returns : d.op # "update_booking_status") =>
           /\ r.booking_id \notin DOMAIN bookings'
           /\ flights'[FlightId] = Capacity
           /\ r.result # "confirmed"]_vars

\* The booking ids create_booking has returned.
ReturnedBookingIds == BookingIds \ {UnknownBookingId}

\* C38: no tool rejects the format of a booking id that create_booking has
\* returned.
C38_GeneratedIdsAccepted ==
    \A r \in tool_returns :
        r.booking_id \in ReturnedBookingIds => r.result # "invalid_id"

\* C39: a booking row whose hold_expires_at is not NULL has the status HELD.
C39_ExpiryOnlyOnHeld ==
    \A id \in DOMAIN bookings :
        bookings[id].hold_expires_at # {} => bookings[id].status = "HELD"

\* A hold with an expiry was confirmed, and its row has no expiry.
C39_Witness ==
    \E r \in tool_returns :
        /\ r.tool = "confirm_held_booking" /\ r.result = "confirmed"
        /\ r.booking_id \in DOMAIN bookings
        /\ bookings[r.booking_id].status = "CONFIRMED"
        /\ bookings[r.booking_id].hold_expires_at = {}
        /\ \E d \in db_returns :
             /\ d.op = "create_booking" /\ d.booking_id = r.booking_id

====
